---- MODULE Spec2Model ----
(***************************************************************************)
(* A model of nameko's ServiceContainer (src/nameko/containers.py): the    *)
(* container's lifecycle, its worker pool, its managed threads and the     *)
(* died signal, under eventlet's cooperative scheduling.  Every action is  *)
(* what one green thread does between two suspension points.  The worker   *)
(* context a spawned worker is given (WorkerContextBase) is modelled next  *)
(* to it, as the steps of its constructor on inputs drawn from small sets. *)
(* RPC between services (src/nameko/rpc.py) is modelled as a third part:   *)
(* the consumer, the entrypoint providers, the responder, the reply        *)
(* listener and the method proxies of three services calling each other.   *)
(***************************************************************************)
EXTENDS Integers, Sequences, FiniteSets, TLC

(***************************************************************************)
(* Bounds of the model.                                                    *)
(***************************************************************************)
\* the calls a run makes in all: lifecycle calls from outside (start, stop,
\* kill, wait), spawn_managed_thread calls, spawn_worker calls and gt.kill()
\* calls from outside
MaxOps == 3
\* the max_workers the container is configured with: config[MAX_WORKERS_KEY]
MaxWorkersCfg == 1
\* the largest parent_calls_tracked a container is configured with
MaxTracked == 2
\* the longest short call id stack a worker is spawned with
MaxStack == 3
\* what happens to the RPC services from outside in a run: entrypoint_hook
\* calls, requests for a method that does not exist, a container stopped or
\* killed, a reply that cannot be published, a reply delivered again or
\* without correlation id
MaxRpcOps == 2

(***************************************************************************)
(* Program constants.                                                      *)
(***************************************************************************)
DEFAULT_MAX_WORKERS == 10
DEFAULT_PARENT_CALLS_TRACKED == 10
PARENT_CALLS_KEY == "parent_calls_tracked"
WORKER_CALL_ID_STACK_KEY == "call_id_stack"

\* green threads that call the container's API from outside
Callers == {"c1", "c2"}
\* green threads spawned by spawn_managed_thread
Threads == {"t1", "t2"}
\* green threads spawned by spawn_worker
Workers == {"w1", "w2"}
Managed == Threads \cup Workers
Tasks == Callers \cup Managed

\* the dependency set of the service, partitioned into its three views
Entrypoints == {"ham", "egg"}
Injections == {"spam"}
Nested == {"nest"}
Deps == Entrypoints \cup Injections \cup Nested

LifecycleHooks == {"prepare", "start", "stop", "kill"}

\* an exception is named after the task that raised it or passed it to kill
ExcOf(t) == t

VARIABLES
    started,            \* ServiceContainer.started
    being_killed,       \* ServiceContainer._being_killed
    died,               \* ServiceContainer._died: "unfired", "ok" or an exception
    active_threads,     \* ServiceContainer._active_threads
    protected_threads,  \* ServiceContainer._protected_threads
    worker_pool,        \* the green threads running in ServiceContainer._worker_pool
    pc,                 \* where each green thread is suspended
    todo,               \* per green thread: the threads its kill loop has left to kill
    exc,                \* per green thread: the argument of the kill(exc) it is in
    provider,           \* per worker: the entrypoint whose spawn_worker call made it
    wlog,               \* per worker: the steps of _run_worker completed (kept for a
                        \* worker that runs or has returned, dropped when it is cut short)
    wres,               \* per worker: result and exc of _run_worker, and the (result, exc)
                        \* it passed to worker_result and to handle_result
    exitmode,           \* per managed thread: how it ended: "ok", "raised", or the
                        \* kill loop that cancelled it
    calls,              \* per dependency and lifecycle hook: the number of invocations
    died_sends,         \* the number of send/send_exception calls on _died
    outcome,            \* per green thread: how its last stop/kill/wait call ended
    late,               \* per green thread: its last stop/kill call began after _died fired
    eff,                \* the green threads whose kill performed the shutdown steps
    first_kill,         \* the exception of the first kill that marked _being_killed
    inflight,           \* per caller: the workers that were running when its stop() began
    op,                 \* per green thread: the container call it made last
    waited,             \* per green thread: its last kill/wait call was suspended on _died
    victims,            \* the threads in _active_threads when the kill that shuts down began
    suspended,          \* the workers whose spawn_worker call was suspended by the pool
    registry,           \* per thread of spawn_managed_thread: the registry its
                        \* `protected` argument chose ("none" before it is spawned)
    max_workers,        \* ServiceContainer.max_workers
    ncalls,             \* the calls made so far
    config,             \* ServiceContainer.config: the keys a worker context reads
    service_name,       \* ServiceContainer.service_name
    ctx_args,           \* the method_name and data a worker context is constructed with
                        \* (data: the empty set for None, or the set of the one dict given)
    worker_ctx,         \* the fields of the worker context under construction
    ctx_pc,             \* where WorkerContextBase.__init__ is
    context_read,       \* what worker_ctx.context_data returned (the empty set before)
    headers_sent,       \* the headers made from the worker context (the empty set before)
    data_received,      \* the context data unpacked from them (the empty set before)
    rpc_providers,      \* per service: RpcConsumer._providers
    unregistering,      \* per service: RpcConsumer._unregistering_providers
    unregistered,       \* per service: the sends on _unregistered_from_queue_consumer
    consuming,          \* per service: the queues registered with its queue consumer
    ppc,                \* per service and rpc method: where the provider's stop() is
    reply_events,       \* per service: the keys of ReplyListener._reply_events
    events,             \* per correlation id: the bodies sent to its reply event
    unknown,            \* per service: the ids logged as "Unknown correlation id"
    broker,             \* the messages published and not yet delivered
    rworkers,           \* the workers spawned, in order: service, method, context,
                        \* message, where it is, result and exc
    replies,            \* per request: the replies published for it, in order
    acks,               \* per request: the number of ack_message calls
    rlog,               \* per request: "reply" and "ack" in the order they happened
    unrouted,           \* the requests no provider was found for, and where the
                        \* consumer's handle_result is for each
    stack_request,      \* the parent stacks seen at each worker context's construction
    hook_results,       \* what each entrypoint_hook call got back, in order of return
    call_count,         \* the ids handed out by new_call_id (predictable_call_ids)
    ncids,              \* the correlation ids handed out
    svc_state,          \* per service: its container is "running", "stopping",
                        \* "stopped" (stop() has ended) or "dead" (it was killed)
    nrpc                \* what happened to the RPC services from outside so far

cvars == <<started, being_killed, died, active_threads, protected_threads, worker_pool,
           max_workers>>
tvars == <<pc, todo, exc, provider, wlog, wres, exitmode>>
xvars == <<op, waited, victims, suspended, registry>>
hvars == <<calls, died_sends, outcome, late, eff, first_kill, inflight, ncalls, xvars>>
hdrvars == <<context_read, headers_sent, data_received>>
wctx == <<config, service_name, ctx_args, worker_ctx, ctx_pc, hdrvars>>
regvars == <<rpc_providers, unregistering, unregistered, ppc>>
lvars == <<reply_events, events, unknown>>
msgvars == <<broker, replies, acks, rlog>>
obsvars == <<stack_request, hook_results>>
rpcvars == <<regvars, lvars, msgvars, obsvars, consuming, rworkers, unrouted, call_count,
             ncids, svc_state, nrpc>>
vars == <<cvars, tvars, hvars, wctx, rpcvars>>

\* ServiceContainer.__init__: max_workers = config.get(MAX_WORKERS_KEY) or DEFAULT
MaxWorkersOf(cfg) == IF cfg = 0 THEN DEFAULT_MAX_WORKERS ELSE cfg

\* the ids of green threads are handed out in order, and a call from outside
\* is made by the first caller that is free
Order == <<"c1", "c2", "t1", "t2", "w1", "w2">>
Index(t) == CHOOSE i \in 1..Len(Order) : Order[i] = t

\* _run_worker before the service method has run: result = exc = None, and
\* nothing passed on yet
NoResult == [result |-> "None", exc |-> "None", worker_result |-> <<>>, handle_result |-> <<>>]

ContainerInit ==
    /\ started = FALSE
    /\ being_killed = FALSE
    /\ died = "unfired"
    /\ active_threads = {}
    /\ protected_threads = {}
    /\ worker_pool = {}
    /\ max_workers = MaxWorkersOf(MaxWorkersCfg)
    /\ pc = [t \in Tasks |-> IF t \in Callers THEN "idle" ELSE "unused"]
    /\ todo = [t \in Tasks |-> {}]
    /\ exc = [t \in Tasks |-> "none"]
    /\ provider = [w \in Workers |-> "none"]
    /\ wlog = [w \in Workers |-> <<>>]
    /\ wres = [w \in Workers |-> NoResult]
    /\ exitmode = [t \in Managed |-> "none"]
    /\ calls = [d \in Deps |-> [h \in LifecycleHooks |-> 0]]
    /\ died_sends = 0
    /\ outcome = [t \in Tasks |-> "none"]
    /\ late = [t \in Tasks |-> FALSE]
    /\ eff = {}
    /\ first_kill = "none"
    /\ inflight = [c \in Callers |-> {}]
    /\ op = [t \in Tasks |-> "none"]
    /\ waited = [t \in Tasks |-> FALSE]
    /\ victims = {}
    /\ suspended = {}
    /\ registry = [t \in Threads |-> "none"]
    /\ ncalls = 0

\* a dict without entries
EmptyDict == [k \in {} |-> 0]

\* a worker context none of whose fields is assigned yet
NoCtx ==
    [parent_calls_tracked |-> 0, method_name |-> "", service_name |-> "", data |-> EmptyDict,
     parent_call_stack |-> <<>>, unique_id |-> "", call_id |-> "", call_id_stack |-> <<>>,
     immediate_parent_call_id |-> "None"]

\* the services of the RPC part, the rpc methods each declares and the
\* method each method calls through its rpc_proxy (none for the others);
\* "idle" has an RpcConsumer that no provider registered with
RpcServices == {"grandparent", "parent", "child", "idle"}
RpcMethods ==
    [grandparent |-> {"grandparent_do"}, parent |-> {"parent_do"},
     child |-> {"child_do", "child_ping"}, idle |-> {}]
Callee ==
    [grandparent_do |-> [service |-> "parent", method |-> "parent_do"],
     parent_do |-> [service |-> "child", method |-> "child_do"]]

\* correlation ids: a call from outside leads to at most two proxied calls
Cids == 1..(2 * MaxRpcOps)

\* ReplyListener.routing_key of a service: str(uuid.uuid4())
ReplyRoutingKey(s) == "uuid-" \o s

\* the queues of a service: its rpc queue and its reply queue
RpcQueue(s) == "rpc-" \o s
ReplyQueue(s) == "rpc.reply-" \o s \o "-" \o ReplyRoutingKey(s)

\* no exception, and no error in a reply (None)
NoExc == [exc_type |-> "", value |-> ""]

\* the message of a worker that was not spawned for a message
NoMessage ==
    [kind |-> "none", routing_key |-> "", reply_to |-> "", correlation_id |-> 0,
     headers |-> EmptyDict]

\* the services after runner.start(): every rpc provider registered with its
\* consumer, consumer and reply listener registered with the queue consumer,
\* nothing called yet
RpcInit ==
    /\ rpc_providers = [s \in RpcServices |-> RpcMethods[s]]
    /\ unregistering = [s \in RpcServices |-> {}]
    /\ unregistered = [s \in RpcServices |-> 0]
    /\ consuming = [s \in RpcServices |-> {RpcQueue(s), ReplyQueue(s)}]
    /\ ppc = [s \in RpcServices |-> [m \in RpcMethods[s] |-> "started"]]
    /\ reply_events = [s \in RpcServices |-> {}]
    /\ events = [c \in Cids |-> <<>>]
    /\ unknown = [s \in RpcServices |-> {}]
    /\ broker = {}
    /\ rworkers = <<>>
    /\ unrouted = <<>>
    /\ replies = [c \in Cids |-> <<>>]
    /\ acks = [c \in Cids |-> 0]
    /\ rlog = [c \in Cids |-> <<>>]
    /\ stack_request = <<>>
    /\ hook_results = <<>>
    /\ call_count = 0
    /\ ncids = 0
    /\ svc_state = [s \in RpcServices |-> "running"]
    /\ nrpc = 0

\* a container with a default config that constructs no worker context, and
\* the services started
Init ==
    /\ ContainerInit
    /\ config = EmptyDict
    /\ service_name = "baz"
    /\ ctx_args = [method_name |-> "long", data |-> {}]
    /\ worker_ctx = NoCtx
    /\ ctx_pc = "none"
    /\ context_read = {} /\ headers_sent = {} /\ data_received = {}
    /\ RpcInit

(***************************************************************************)
(* Helpers: the state of a green thread and of the died event.             *)
(***************************************************************************)
\* eventlet.event.Event.ready on _died
Ready == died # "unfired"

\* where a green thread is once the call it was in has ended
Rest(t) == IF t \in Callers THEN "idle" ELSE "dead"

\* a managed green thread that has been spawned and has not ended (not gt.dead)
Alive(g) == pc[g] \notin {"unused", "spawn_wait", "dead"}

\* the green threads a worker pool slot is held by: GreenPool.running()
Running == Cardinality(worker_pool)

\* spawn_worker calls suspended in GreenPool.spawn on behalf of entrypoint p
PendingSpawns(p) == {w \in Workers : pc[w] = "spawn_wait" /\ provider[w] = p}

\* the next call from outside is made by caller c
CanCall(c) ==
    /\ c \in Callers /\ pc[c] = "idle" /\ ncalls < MaxOps
    /\ \A b \in Callers : Index(b) < Index(c) => pc[b] # "idle"

\* the next green thread spawned gets id g
CanSpawn(g, ids) ==
    /\ g \in ids /\ pc[g] = "unused" /\ ncalls < MaxOps
    /\ \A b \in ids : Index(b) < Index(g) => pc[b] # "unused"

\* the fan-out of lifecycle hook h over the dependency view S: the hook is
\* invoked on every member of the view
InvokeAll(S, h) ==
    calls' = [d \in Deps |-> [x \in LifecycleHooks |->
                IF d \in S /\ x = h THEN calls[d][x] + 1 ELSE calls[d][x]]]

\* the call of green thread t ends with `out`: "ok" (returned) or the exception raised
EndCall(t, out) ==
    /\ pc' = [pc EXCEPT ![t] = Rest(t)]
    /\ todo' = [todo EXCEPT ![t] = {}]
    /\ exc' = [exc EXCEPT ![t] = "none"]
    /\ outcome' = [outcome EXCEPT ![t] = out]

\* Event.send / Event.send_exception on _died by green thread t, which ends its
\* call: the event keeps the first value, a second send fails its assertion
SendDied(t, value) ==
    /\ died_sends' = died_sends + 1
    /\ died' = IF died = "unfired" THEN value ELSE died
    /\ EndCall(t, IF died = "unfired" THEN "ok" ELSE "AssertionError")

\* gt.kill() by green thread k on the live managed thread g: GreenletExit is
\* thrown into g, which ends at once, its links run (GreenPool._spawn_done for
\* a worker, then _handle_thread_exited, which discards it and ignores the
\* GreenletExit), and k is rescheduled at `at` with `rest` left to kill
KillGt(k, g, at, rest) ==
    /\ pc' = [pc EXCEPT ![k] = at, ![g] = "dead"]
    /\ todo' = [todo EXCEPT ![k] = rest, ![g] = {}]
    /\ exc' = [exc EXCEPT ![g] = "none"]
    /\ active_threads' = active_threads \ {g}
    /\ protected_threads' = protected_threads \ {g}
    /\ worker_pool' = worker_pool \ {g}
    /\ exitmode' = [exitmode EXCEPT ![g] = IF @ = "none" THEN at ELSE @]
    /\ outcome' = [outcome EXCEPT ![g] = IF pc[g] \in {"unused", "running"} \/ g \in worker_pool
                                         THEN @ ELSE "GreenletExit"]
    /\ wlog' = [w \in Workers |-> IF w = g THEN <<>> ELSE wlog[w]]
    /\ wres' = [w \in Workers |-> IF w = g THEN NoResult ELSE wres[w]]
    /\ UNCHANGED <<started, being_killed, died, max_workers, wctx, rpcvars, provider>>
    /\ UNCHANGED <<died_sends, late, eff, first_kill, inflight, ncalls>>
    /\ UNCHANGED xvars

\* the for loop of _kill_active_threads / _kill_protected_threads, resumed
\* after a gt.kill(): the next live thread of the list is killed, and when none
\* is left the caller goes on with Done without yielding
KillLoop(k, at, Done) ==
    /\ pc[k] = at
    /\ LET live == {g \in todo[k] : Alive(g)}
       IN  IF live # {}
           THEN \E g \in live : KillGt(k, g, at, live \ {g})
           ELSE Done

\* _kill_active_threads / _kill_protected_threads on registry reg: nothing when
\* it is empty, else the list is taken and its first thread killed
KillThreads(k, reg, at, Done) ==
    IF reg # {}
    THEN \E g \in reg : KillGt(k, g, at, reg \ {g})
    ELSE Done

(***************************************************************************)
(* ServiceContainer.start                                                  *)
(***************************************************************************)
\* start(): started = True, then dependencies.all.prepare() begins
start(c) ==
    /\ CanCall(c)
    /\ started' = TRUE
    /\ pc' = [pc EXCEPT ![c] = "start_prepare"]
    /\ ncalls' = ncalls + 1
    /\ outcome' = [outcome EXCEPT ![c] = "none"]
    /\ late' = [late EXCEPT ![c] = FALSE]
    /\ op' = [op EXCEPT ![c] = "start"]
    /\ waited' = [waited EXCEPT ![c] = FALSE]
    /\ UNCHANGED <<being_killed, died, active_threads, protected_threads, worker_pool, max_workers, wctx, rpcvars>>
    /\ UNCHANGED <<todo, exc, provider, wlog, wres, exitmode>>
    /\ UNCHANGED <<calls, died_sends, eff, first_kill, inflight, victims, suspended, registry>>

\* a start() that prepares the entrypoints only
start_prepare_entrypoints(c) ==
    /\ pc[c] = "start_prepare"
    /\ InvokeAll(Entrypoints, "prepare")
    /\ pc' = [pc EXCEPT ![c] = "start_start"]
    /\ UNCHANGED <<cvars, wctx, rpcvars, todo, exc, provider, wlog, wres, exitmode>>
    /\ UNCHANGED <<died_sends, outcome, late, eff, first_kill, inflight, ncalls, xvars>>

\* dependencies.all.prepare() on every member, then dependencies.all.start() begins
start_prepare(c) ==
    /\ pc[c] = "start_prepare"
    /\ InvokeAll(Deps, "prepare")
    /\ pc' = [pc EXCEPT ![c] = "start_start"]
    /\ UNCHANGED <<cvars, wctx, rpcvars, todo, exc, provider, wlog, wres, exitmode>>
    /\ UNCHANGED <<died_sends, outcome, late, eff, first_kill, inflight, ncalls, xvars>>

\* dependencies.all.start() on every member, then start() returns
start_start(c) ==
    /\ pc[c] = "start_start"
    /\ InvokeAll(Deps, "start")
    /\ EndCall(c, "ok")
    /\ UNCHANGED <<cvars, wctx, rpcvars, provider, wlog, wres, exitmode>>
    /\ UNCHANGED <<died_sends, late, eff, first_kill, inflight, ncalls, xvars>>

(***************************************************************************)
(* ServiceContainer.stop                                                   *)
(***************************************************************************)
\* a stop() that ends without firing _died
stop_finish_silent(c) ==
    /\ started' = FALSE
    /\ EndCall(c, "ok")
    /\ UNCHANGED <<died, died_sends>>
    /\ UNCHANGED <<being_killed, active_threads, protected_threads, worker_pool, max_workers, wctx, rpcvars>>
    /\ UNCHANGED <<provider, wlog, wres, exitmode, late, eff, first_kill, inflight, ncalls, xvars>>

\* stop() ends: started = False; _died.send(None)
stop_finish(c) ==
    /\ started' = FALSE
    /\ SendDied(c, "ok")
    /\ UNCHANGED <<being_killed, active_threads, protected_threads, worker_pool, max_workers, wctx, rpcvars>>
    /\ UNCHANGED <<provider, wlog, wres, exitmode, late, eff, first_kill, inflight, ncalls, xvars>>

\* stop(): returns at once when _died is ready, else
\* dependencies.entrypoints.all.stop() begins
stop(c) ==
    /\ CanCall(c)
    /\ ncalls' = ncalls + 1
    /\ late' = [late EXCEPT ![c] = Ready]
    /\ op' = [op EXCEPT ![c] = "stop"]
    /\ waited' = [waited EXCEPT ![c] = FALSE]
    /\ IF Ready
       THEN /\ outcome' = [outcome EXCEPT ![c] = "ok"]
            /\ UNCHANGED pc
       ELSE /\ pc' = [pc EXCEPT ![c] = "stop_entrypoints"]
            /\ outcome' = [outcome EXCEPT ![c] = "none"]
    /\ inflight' = [inflight EXCEPT ![c] = IF Ready THEN {} ELSE worker_pool]
    /\ UNCHANGED <<cvars, wctx, rpcvars, todo, exc, provider, wlog, wres, exitmode>>
    /\ UNCHANGED <<calls, died_sends, eff, first_kill, victims, suspended, registry>>

\* stop() without the waitall(): the injections are stopped right after the
\* entrypoints
stop_waitall_skipped(c) ==
    pc' = [pc EXCEPT ![c] = "stop_injections"]

\* self._worker_pool.waitall() and what follows it: waitall returns at once
\* when no worker is running, and dependencies.injections.all.stop() begins
stop_waitall(c) ==
    pc' = [pc EXCEPT ![c] = IF Running = 0 THEN "stop_injections" ELSE "stop_waitall"]

\* dependencies.entrypoints.all.stop() on every entrypoint, each of which
\* returns only when the entrypoint has stopped: no spawn_worker call of its is
\* pending; then self._worker_pool.waitall()
stop_entrypoints(c) ==
    /\ pc[c] = "stop_entrypoints"
    /\ \A d \in Entrypoints : PendingSpawns(d) = {}
    /\ InvokeAll(Entrypoints, "stop")
    /\ stop_waitall(c)
    /\ UNCHANGED <<cvars, wctx, rpcvars, todo, exc, provider, wlog, wres, exitmode>>
    /\ UNCHANGED <<died_sends, outcome, late, eff, first_kill, inflight, ncalls, xvars>>

\* a waitall() that returns while workers are still running
stop_drained_early(c) ==
    /\ pc[c] = "stop_waitall"
    /\ pc' = [pc EXCEPT ![c] = "stop_injections"]
    /\ UNCHANGED <<cvars, wctx, rpcvars, todo, exc, provider, wlog, wres, exitmode, hvars>>

\* waitall() returns: the last running worker has finished
stop_drained(c) ==
    /\ pc[c] = "stop_waitall"
    /\ Running = 0
    /\ pc' = [pc EXCEPT ![c] = "stop_injections"]
    /\ UNCHANGED <<cvars, wctx, rpcvars, todo, exc, provider, wlog, wres, exitmode, hvars>>

\* a stop() whose third step is dependencies.all.stop(): every dependency is
\* stopped there, the entrypoints for the second time
stop_injections_all(c) ==
    /\ pc[c] = "stop_injections"
    /\ InvokeAll(Deps, "stop")
    /\ pc' = [pc EXCEPT ![c] = "stop_nested"]
    /\ UNCHANGED <<cvars, wctx, rpcvars, todo, exc, provider, wlog, wres, exitmode>>
    /\ UNCHANGED <<died_sends, outcome, late, eff, first_kill, inflight, ncalls, xvars>>

\* dependencies.injections.all.stop() on every injection, then
\* dependencies.nested.all.stop() begins
stop_injections(c) ==
    /\ pc[c] = "stop_injections"
    /\ InvokeAll(Injections, "stop")
    /\ pc' = [pc EXCEPT ![c] = "stop_nested"]
    /\ UNCHANGED <<cvars, wctx, rpcvars, todo, exc, provider, wlog, wres, exitmode>>
    /\ UNCHANGED <<died_sends, outcome, late, eff, first_kill, inflight, ncalls, xvars>>

\* a stop() that ends after _kill_active_threads(), without
\* _kill_protected_threads()
stop_protected_threads_spared(c) ==
    stop_finish(c)

\* stop(): self._kill_protected_threads(), then the end of stop()
stop_kill_protected_threads(c) ==
    KillThreads(c, protected_threads, "stop_kill_protected", stop_finish(c))

\* dependencies.nested.all.stop() on every nested dependency, then
\* self._kill_active_threads() and on
stop_nested(c) ==
    /\ pc[c] = "stop_nested"
    /\ InvokeAll(Nested, "stop")
    /\ KillThreads(c, active_threads, "stop_kill_active", stop_kill_protected_threads(c))

\* stop() resumed in the loop of _kill_active_threads
stop_kill_active_loop(c) ==
    /\ KillLoop(c, "stop_kill_active", stop_kill_protected_threads(c))
    /\ UNCHANGED calls

\* stop() resumed in the loop of _kill_protected_threads
stop_kill_protected_loop(c) ==
    /\ KillLoop(c, "stop_kill_protected", stop_finish(c))
    /\ UNCHANGED calls

(***************************************************************************)
(* ServiceContainer.kill                                                   *)
(***************************************************************************)
\* kill(exc) without the _being_killed check: every kill that finds _died
\* unfired performs the shutdown steps
kill_entry_unguarded(k, e) ==
    /\ op' = [op EXCEPT ![k] = "kill"]
    /\ waited' = [waited EXCEPT ![k] = FALSE]
    /\ victims' = IF ~Ready THEN active_threads \ {k} ELSE victims
    /\ late' = [late EXCEPT ![k] = Ready]
    /\ first_kill' = IF first_kill = "none" THEN e ELSE first_kill
    /\ being_killed' = TRUE
    /\ IF Ready
       THEN /\ EndCall(k, "ok")
            /\ UNCHANGED eff
       ELSE /\ pc' = [pc EXCEPT ![k] = "kill_entrypoints"]
            /\ exc' = [exc EXCEPT ![k] = e]
            /\ outcome' = [outcome EXCEPT ![k] = "none"]
            /\ eff' = eff \cup {k}
            /\ UNCHANGED todo

\* kill(exc) up to its first suspension point, by green thread k: while a kill
\* is in progress it waits for _died (Event.wait returns the value sent, or
\* raises the exception sent); else it marks _being_killed, returns when _died
\* is ready, and otherwise dependencies.entrypoints.all.kill(exc) begins
kill_entry(k, e) ==
    /\ op' = [op EXCEPT ![k] = "kill"]
    /\ waited' = [waited EXCEPT ![k] = being_killed /\ ~Ready]
    /\ victims' = IF ~being_killed /\ ~Ready THEN active_threads \ {k} ELSE victims
    /\ late' = [late EXCEPT ![k] = Ready]
    /\ first_kill' = IF first_kill = "none" THEN e ELSE first_kill
    /\ being_killed' = TRUE
    /\ IF being_killed /\ ~Ready
       THEN /\ pc' = [pc EXCEPT ![k] = "kill_wait"]
            /\ exc' = [exc EXCEPT ![k] = e]
            /\ outcome' = [outcome EXCEPT ![k] = "none"]
            /\ UNCHANGED <<todo, eff>>
       ELSE IF being_killed /\ died # "ok"
       THEN /\ EndCall(k, died)
            /\ UNCHANGED eff
       ELSE IF Ready
       THEN /\ EndCall(k, "ok")
            /\ UNCHANGED eff
       ELSE /\ pc' = [pc EXCEPT ![k] = "kill_entrypoints"]
            /\ exc' = [exc EXCEPT ![k] = e]
            /\ outcome' = [outcome EXCEPT ![k] = "none"]
            /\ eff' = eff \cup {k}
            /\ UNCHANGED todo

\* kill(exc) called from outside
kill(c) ==
    /\ CanCall(c)
    /\ ncalls' = ncalls + 1
    /\ kill_entry(c, ExcOf(c))
    /\ UNCHANGED <<started, died, active_threads, protected_threads, worker_pool, max_workers, wctx, rpcvars>>
    /\ UNCHANGED <<provider, wlog, wres, exitmode, calls, died_sends, inflight>>
    /\ UNCHANGED <<suspended, registry>>

\* self._died.wait() in kill returns or raises: _died has fired
kill_wait(k) ==
    /\ pc[k] = "kill_wait"
    /\ Ready
    /\ EndCall(k, died)
    /\ UNCHANGED <<cvars, wctx, rpcvars, provider, wlog, wres, exitmode>>
    /\ UNCHANGED <<calls, died_sends, late, eff, first_kill, inflight, ncalls, xvars>>

\* kill() ends: started = False; _died.send_exception(exc)
kill_finish(k) ==
    /\ started' = FALSE
    /\ SendDied(k, exc[k])
    /\ UNCHANGED <<being_killed, active_threads, protected_threads, worker_pool, max_workers, wctx, rpcvars>>
    /\ UNCHANGED <<provider, wlog, wres, exitmode, late, eff, first_kill, inflight, ncalls, xvars>>

\* a kill() that goes from _kill_active_threads() straight to
\* _kill_protected_threads(), without self.dependencies.all.kill(exc)
kill_dependencies_skipped(k) ==
    KillThreads(k, protected_threads, "kill_kill_protected", kill_finish(k))

\* kill(): _kill_active_threads() is done and self.dependencies.all.kill(exc) begins
kill_active_threads_killed(k) ==
    /\ pc' = [pc EXCEPT ![k] = "kill_dependencies"]
    /\ todo' = [todo EXCEPT ![k] = {}]
    /\ UNCHANGED <<cvars, wctx, rpcvars, exc, provider, wlog, wres, exitmode>>
    /\ UNCHANGED <<died_sends, outcome, late, eff, first_kill, inflight, ncalls, xvars>>

\* kill() without _kill_active_threads: the dependencies are killed right after
\* the entrypoints
kill_entrypoints_only(k) ==
    /\ pc[k] = "kill_entrypoints"
    /\ InvokeAll(Entrypoints, "kill")
    /\ kill_active_threads_killed(k)

\* dependencies.entrypoints.all.kill(exc) on every entrypoint, then
\* self._kill_active_threads() and on
kill_entrypoints(k) ==
    /\ pc[k] = "kill_entrypoints"
    /\ InvokeAll(Entrypoints, "kill")
    /\ KillThreads(k, active_threads, "kill_kill_active", kill_active_threads_killed(k))

\* kill() resumed in the loop of _kill_active_threads
kill_kill_active_loop(k) ==
    /\ KillLoop(k, "kill_kill_active", kill_active_threads_killed(k))
    /\ UNCHANGED calls

\* dependencies.all.kill(exc) on every dependency, then
\* self._kill_protected_threads() and the end of kill()
kill_dependencies(k) ==
    /\ pc[k] = "kill_dependencies"
    /\ InvokeAll(Deps, "kill")
    /\ KillThreads(k, protected_threads, "kill_kill_protected", kill_finish(k))

\* kill() resumed in the loop of _kill_protected_threads
kill_kill_protected_loop(k) ==
    /\ KillLoop(k, "kill_kill_protected", kill_finish(k))
    /\ UNCHANGED calls

(***************************************************************************)
(* ServiceContainer.wait                                                   *)
(***************************************************************************)
\* wait(): self._died.wait() returns or raises at once when _died is ready
wait(c) ==
    /\ CanCall(c)
    /\ ncalls' = ncalls + 1
    /\ late' = [late EXCEPT ![c] = FALSE]
    /\ IF Ready
       THEN /\ outcome' = [outcome EXCEPT ![c] = died]
            /\ UNCHANGED pc
       ELSE /\ outcome' = [outcome EXCEPT ![c] = "none"]
            /\ pc' = [pc EXCEPT ![c] = "wait"]
    /\ UNCHANGED <<cvars, wctx, rpcvars, todo, exc, provider, wlog, wres, exitmode>>
    /\ UNCHANGED <<calls, died_sends, eff, first_kill, inflight>>
    /\ op' = [op EXCEPT ![c] = "wait"]
    /\ waited' = [waited EXCEPT ![c] = ~Ready]
    /\ UNCHANGED <<victims, suspended, registry>>

\* a wait() that returns normally whatever _died was fired with
wait_return_swallows(c) ==
    /\ pc[c] = "wait"
    /\ Ready
    /\ EndCall(c, "ok")
    /\ UNCHANGED <<cvars, wctx, rpcvars, provider, wlog, wres, exitmode>>
    /\ UNCHANGED <<calls, died_sends, late, eff, first_kill, inflight, ncalls>>
    /\ UNCHANGED xvars

\* a caller suspended in wait() is resumed: _died has fired
wait_return(c) ==
    /\ pc[c] = "wait"
    /\ Ready
    /\ EndCall(c, died)
    /\ UNCHANGED <<cvars, wctx, rpcvars, provider, wlog, wres, exitmode>>
    /\ UNCHANGED <<calls, died_sends, late, eff, first_kill, inflight, ncalls>>
    /\ UNCHANGED xvars

(***************************************************************************)
(* Managed threads: spawn_managed_thread and _handle_thread_exited         *)
(***************************************************************************)
\* a spawn_managed_thread that adds every thread to _active_threads, and a
\* protected one to _protected_threads as well
spawn_managed_thread_both(t, protected) ==
    /\ CanSpawn(t, Threads)
    /\ ncalls' = ncalls + 1
    /\ pc' = [pc EXCEPT ![t] = "running"]
    /\ registry' = [registry EXCEPT ![t] = IF protected THEN "protected" ELSE "active"]
    /\ active_threads' = active_threads \cup {t}
    /\ IF protected
       THEN protected_threads' = protected_threads \cup {t}
       ELSE UNCHANGED protected_threads
    /\ UNCHANGED <<started, being_killed, died, worker_pool, max_workers, wctx, rpcvars>>
    /\ UNCHANGED <<todo, exc, provider, wlog, wres, exitmode>>
    /\ UNCHANGED <<calls, died_sends, outcome, late, eff, first_kill, inflight>>
    /\ UNCHANGED <<op, waited, victims, suspended>>

\* spawn_managed_thread(run_method, protected)
spawn_managed_thread(t, protected) ==
    /\ CanSpawn(t, Threads)
    /\ ncalls' = ncalls + 1
    /\ pc' = [pc EXCEPT ![t] = "running"]
    /\ registry' = [registry EXCEPT ![t] = IF protected THEN "protected" ELSE "active"]
    /\ IF protected
       THEN protected_threads' = protected_threads \cup {t} /\ UNCHANGED active_threads
       ELSE active_threads' = active_threads \cup {t} /\ UNCHANGED protected_threads
    /\ UNCHANGED <<started, being_killed, died, worker_pool, max_workers, wctx, rpcvars>>
    /\ UNCHANGED <<todo, exc, provider, wlog, wres, exitmode>>
    /\ UNCHANGED <<calls, died_sends, outcome, late, eff, first_kill, inflight>>
    /\ UNCHANGED <<op, waited, victims, suspended>>

\* run_method returns: _handle_thread_exited discards the thread, gt.wait()
\* returns and nothing else is done
thread_exits(t) ==
    /\ t \in Threads /\ pc[t] = "running"
    /\ pc' = [pc EXCEPT ![t] = "dead"]
    /\ active_threads' = active_threads \ {t}
    /\ protected_threads' = protected_threads \ {t}
    /\ exitmode' = [exitmode EXCEPT ![t] = "ok"]
    /\ UNCHANGED <<started, being_killed, died, worker_pool, max_workers, wctx, rpcvars>>
    /\ UNCHANGED <<todo, exc, provider, wlog, wres, hvars>>

\* run_method raises: _handle_thread_exited discards the thread, gt.wait()
\* raises the exception and the handler calls self.kill(exc)
thread_raises(t) ==
    /\ t \in Threads /\ pc[t] = "running"
    /\ active_threads' = active_threads \ {t}
    /\ protected_threads' = protected_threads \ {t}
    /\ exitmode' = [exitmode EXCEPT ![t] = "raised"]
    /\ kill_entry(t, ExcOf(t))
    /\ UNCHANGED <<started, died, worker_pool, max_workers, wctx, rpcvars>>
    /\ UNCHANGED <<provider, wlog, wres, calls, died_sends, inflight, ncalls>>
    /\ UNCHANGED <<suspended, registry>>

\* an exit handler that takes the GreenletExit of a cancelled thread for an
\* error: it calls self.kill(exc)
thread_killed_as_error(g) ==
    /\ g \in Managed /\ (pc[g] = "running" \/ g \in worker_pool)
    /\ ncalls < MaxOps
    /\ ncalls' = ncalls + 1
    /\ active_threads' = active_threads \ {g}
    /\ protected_threads' = protected_threads \ {g}
    /\ worker_pool' = worker_pool \ {g}
    /\ exitmode' = [exitmode EXCEPT ![g] = "killed"]
    /\ kill_entry(g, "GreenletExit")
    /\ wlog' = [w \in Workers |-> IF w = g THEN <<>> ELSE wlog[w]]
    /\ wres' = [w \in Workers |-> IF w = g THEN NoResult ELSE wres[w]]
    /\ UNCHANGED <<started, died, max_workers, wctx, rpcvars>>
    /\ UNCHANGED <<provider, calls, died_sends, inflight, suspended, registry>>

\* gt.kill() on a running managed thread or worker by its owner, from outside
\* the container: GreenletExit ends it, its links run (GreenPool._spawn_done for
\* a worker), and _handle_thread_exited discards it and ignores the GreenletExit
thread_killed(g) ==
    /\ g \in Managed /\ (pc[g] = "running" \/ g \in worker_pool)
    /\ ncalls < MaxOps
    /\ ncalls' = ncalls + 1
    /\ pc' = [pc EXCEPT ![g] = "dead"]
    /\ active_threads' = active_threads \ {g}
    /\ protected_threads' = protected_threads \ {g}
    /\ worker_pool' = worker_pool \ {g}
    /\ exitmode' = [exitmode EXCEPT ![g] = "killed"]
    /\ wlog' = [w \in Workers |-> IF w = g THEN <<>> ELSE wlog[w]]
    /\ wres' = [w \in Workers |-> IF w = g THEN NoResult ELSE wres[w]]
    /\ UNCHANGED <<started, being_killed, died, max_workers, wctx, rpcvars>>
    /\ UNCHANGED <<todo, exc, provider>>
    /\ UNCHANGED <<calls, died_sends, outcome, late, eff, first_kill, inflight, xvars>>

(***************************************************************************)
(* Workers: spawn_worker, _run_worker and the worker's exit                *)
(***************************************************************************)
\* a _run_worker that sets the worker up before it injects
SetupSteps_swapped == <<"worker_setup", "inject">>

\* the hooks _run_worker fans out before the service method, in order
SetupSteps == <<"inject", "worker_setup">>

\* the hooks _run_worker fans out after the service method, in order
TeardownSteps == <<"worker_result", "worker_teardown", "release">>

\* where a worker can be suspended: spawned and not yet run, in the service
\* method, and in the handle_result callback
WorkerSteps == {"inject", "method", "handle_result"}

\* GreenPool.spawn got a slot: the worker is spawned to run _run_worker, added
\* to _active_threads and linked to _handle_thread_exited
worker_spawned(w) ==
    /\ worker_pool' = worker_pool \cup {w}
    /\ active_threads' = active_threads \cup {w}
    /\ pc' = [pc EXCEPT ![w] = "inject"]

\* spawn_worker on a pool that takes no account of its size
spawn_worker_unbounded(w, p) ==
    /\ CanSpawn(w, Workers)
    /\ ncalls' = ncalls + 1
    /\ p \in Entrypoints /\ calls[p]["stop"] = 0 /\ calls[p]["kill"] = 0
    /\ provider' = [provider EXCEPT ![w] = p]
    /\ worker_spawned(w)
    /\ UNCHANGED <<started, being_killed, died, protected_threads, max_workers, wctx, rpcvars>>
    /\ UNCHANGED <<todo, exc, wlog, wres, exitmode>>
    /\ UNCHANGED <<calls, died_sends, outcome, late, eff, first_kill, inflight>>
    /\ UNCHANGED xvars

\* spawn_worker(provider, ...) by an entrypoint that has not been stopped or
\* killed: self._worker_pool.spawn suspends the caller when the pool is full
spawn_worker(w, p) ==
    /\ CanSpawn(w, Workers)
    /\ ncalls' = ncalls + 1
    /\ p \in Entrypoints /\ calls[p]["stop"] = 0 /\ calls[p]["kill"] = 0
    /\ provider' = [provider EXCEPT ![w] = p]
    /\ IF Running < max_workers
       THEN worker_spawned(w) /\ UNCHANGED suspended
       ELSE /\ pc' = [pc EXCEPT ![w] = "spawn_wait"]
            /\ suspended' = suspended \cup {w}
            /\ UNCHANGED <<worker_pool, active_threads>>
    /\ UNCHANGED <<started, being_killed, died, protected_threads, max_workers, wctx, rpcvars>>
    /\ UNCHANGED <<todo, exc, wlog, wres, exitmode>>
    /\ UNCHANGED <<calls, died_sends, outcome, late, eff, first_kill, inflight>>
    /\ UNCHANGED <<op, waited, victims, registry>>

\* a suspended spawn_worker call that is woken when a slot is free and does not
\* take it
spawn_worker_resume_missed(w) ==
    /\ w \in Workers /\ pc[w] = "spawn_wait"
    /\ Running < max_workers
    /\ UNCHANGED vars

\* a spawn_worker call suspended in GreenPool.spawn is resumed: a slot is free
spawn_worker_resume(w) ==
    /\ w \in Workers /\ pc[w] = "spawn_wait"
    /\ Running < max_workers
    /\ worker_spawned(w)
    /\ UNCHANGED <<started, being_killed, died, protected_threads, max_workers, wctx, rpcvars>>
    /\ UNCHANGED <<todo, exc, provider, wlog, wres, exitmode, hvars>>

\* _run_worker up to the service method: inject on the injections and
\* worker_setup on the dependencies, then the method is called
run_worker_setup(w) ==
    /\ w \in worker_pool /\ pc[w] = "inject"
    /\ wlog' = [wlog EXCEPT ![w] = @ \o SetupSteps]
    /\ wres' = [wres EXCEPT ![w].result = "None", ![w].exc = "None"]
    /\ pc' = [pc EXCEPT ![w] = "method"]
    /\ UNCHANGED <<cvars, wctx, rpcvars, todo, exc, provider, exitmode, hvars>>

\* a _run_worker without the except clause around the service method: the
\* method's exception leaves the worker, whose exit handler calls self.kill(exc)
run_worker_method_uncaught(w, raised) ==
    /\ w \in worker_pool /\ pc[w] = "method"
    /\ worker_pool' = worker_pool \ {w}
    /\ active_threads' = active_threads \ {w}
    /\ protected_threads' = protected_threads \ {w}
    /\ exitmode' = [exitmode EXCEPT ![w] = "raised"]
    /\ kill_entry(w, "egg_error")
    /\ wlog' = [wlog EXCEPT ![w] = Append(@, "method:exc")]
    /\ wres' = [wres EXCEPT ![w].exc = "egg_error"]
    /\ UNCHANGED <<started, died, max_workers, wctx, rpcvars>>
    /\ UNCHANGED <<provider, calls, died_sends, inflight, ncalls>>
    /\ UNCHANGED <<suspended, registry>>

\* _run_worker: the service method returns a result or raises, which is
\* caught; worker_result, worker_teardown and release follow, then
\* handle_result is called
run_worker_method(w, raised) ==
    /\ w \in worker_pool /\ pc[w] = "method"
    /\ wlog' = [wlog EXCEPT ![w] =
                   Append(@, IF raised THEN "method:exc" ELSE "method:result") \o TeardownSteps]
    /\ LET result == IF raised THEN "None" ELSE "ham"
           e == IF raised THEN "egg_error" ELSE "None"
       IN  wres' = [wres EXCEPT ![w].result = result, ![w].exc = e,
                                ![w].worker_result = <<result, e>>]
    /\ pc' = [pc EXCEPT ![w] = "handle_result"]
    /\ UNCHANGED <<cvars, wctx, rpcvars, todo, exc, provider, exitmode, hvars>>

\* _run_worker returns after handle_result (when one was passed): the worker's
\* links run, GreenPool._spawn_done frees the slot and _handle_thread_exited
\* discards the thread
run_worker_returns(w, handled) ==
    /\ w \in worker_pool /\ pc[w] = "handle_result"
    /\ wlog' = [wlog EXCEPT ![w] = IF handled THEN Append(@, "handle_result") ELSE @]
    /\ wres' = [wres EXCEPT ![w].handle_result =
                                IF handled THEN <<wres[w].result, wres[w].exc>> ELSE @]
    /\ pc' = [pc EXCEPT ![w] = "dead"]
    /\ worker_pool' = worker_pool \ {w}
    /\ active_threads' = active_threads \ {w}
    /\ protected_threads' = protected_threads \ {w}
    /\ exitmode' = [exitmode EXCEPT ![w] = "ok"]
    /\ UNCHANGED <<started, being_killed, died, max_workers, wctx, rpcvars, todo, exc, provider, hvars>>

\* an exit handler that treats the worker's exception as it treats a
\* GreenletExit: the thread is discarded and self.kill(exc) is not called
run_worker_raises_ignored(w) ==
    /\ w \in worker_pool
    /\ worker_pool' = worker_pool \ {w}
    /\ active_threads' = active_threads \ {w}
    /\ protected_threads' = protected_threads \ {w}
    /\ exitmode' = [exitmode EXCEPT ![w] = "raised"]
    /\ pc' = [pc EXCEPT ![w] = "dead"]
    /\ wlog' = [wlog EXCEPT ![w] = <<>>]
    /\ wres' = [wres EXCEPT ![w] = NoResult]
    /\ UNCHANGED <<started, being_killed, died, max_workers, wctx, rpcvars, todo, exc, provider, hvars>>

\* _run_worker: a hook or handle_result raises, the exception leaves the
\* worker: GreenPool._spawn_done frees the slot, _handle_thread_exited discards
\* the thread, gt.wait() raises and the handler calls self.kill(exc)
run_worker_raises(w) ==
    /\ w \in worker_pool
    /\ worker_pool' = worker_pool \ {w}
    /\ active_threads' = active_threads \ {w}
    /\ protected_threads' = protected_threads \ {w}
    /\ exitmode' = [exitmode EXCEPT ![w] = "raised"]
    /\ kill_entry(w, ExcOf(w))
    /\ wlog' = [wlog EXCEPT ![w] = <<>>]
    /\ wres' = [wres EXCEPT ![w] = NoResult]
    /\ UNCHANGED <<started, died, max_workers, wctx, rpcvars>>
    /\ UNCHANGED <<provider, calls, died_sends, inflight, ncalls>>
    /\ UNCHANGED <<suspended, registry>>

(***************************************************************************)
(* The specification                                                       *)
(***************************************************************************)
Next ==
    \/ \E c \in Callers : start(c)
    \/ \E c \in Callers : start_prepare(c)
    \/ \E c \in Callers : start_start(c)
    \/ \E c \in Callers : stop(c)
    \/ \E c \in Callers : stop_entrypoints(c)
    \/ \E c \in Callers : stop_drained(c)
    \/ \E c \in Callers : stop_injections(c)
    \/ \E c \in Callers : stop_nested(c)
    \/ \E c \in Callers : stop_kill_active_loop(c)
    \/ \E c \in Callers : stop_kill_protected_loop(c)
    \/ \E c \in Callers : kill(c)
    \/ \E k \in Tasks : kill_wait(k)
    \/ \E k \in Tasks : kill_entrypoints(k)
    \/ \E k \in Tasks : kill_kill_active_loop(k)
    \/ \E k \in Tasks : kill_dependencies(k)
    \/ \E k \in Tasks : kill_kill_protected_loop(k)
    \/ \E c \in Callers : wait(c)
    \/ \E c \in Callers : wait_return(c)
    \/ \E t \in Threads, protected \in BOOLEAN : spawn_managed_thread(t, protected)
    \/ \E t \in Threads : thread_exits(t)
    \/ \E t \in Threads : thread_raises(t)
    \/ \E g \in Managed : thread_killed(g)
    \/ \E w \in Workers, p \in Entrypoints : spawn_worker(w, p)
    \/ \E w \in Workers : spawn_worker_resume(w)
    \/ \E w \in Workers : run_worker_setup(w)
    \/ \E w \in Workers, raised \in BOOLEAN : run_worker_method(w, raised)
    \/ \E w \in Workers, handled \in BOOLEAN : run_worker_returns(w, handled)
    \/ \E w \in Workers : run_worker_raises(w)

Spec == Init /\ [][Next]_vars

\* eventlet's hub runs every green thread that is ready to run: a caller whose
\* Event.wait has been fired and a spawn_worker call whose pool has a free slot
\* are resumed
FairSpec ==
    /\ Spec
    /\ \A c \in Callers : WF_vars(wait_return(c))
    /\ \A w \in Workers : WF_vars(spawn_worker_resume(w))

\* the next step of worker w: its setup, its method, and its return or the
\* exception of one of its hooks
run_worker(w) ==
    \/ run_worker_setup(w)
    \/ \E raised \in BOOLEAN : run_worker_method(w, raised)
    \/ \E handled \in BOOLEAN : run_worker_returns(w, handled)
    \/ run_worker_raises(w)

\* FairSpec where, moreover, every worker goes on to its end and every hook
\* that stop() calls returns, so that a stop() that can go on does
FairStopSpec ==
    /\ FairSpec
    /\ \A w \in Workers : WF_vars(run_worker(w))
    /\ \A c \in Callers :
           /\ WF_vars(stop_entrypoints(c))
           /\ WF_vars(stop_drained(c))
           /\ WF_vars(stop_injections(c))
           /\ WF_vars(stop_nested(c))
           /\ WF_vars(stop_kill_active_loop(c))
           /\ WF_vars(stop_kill_protected_loop(c))

(***************************************************************************)
(* The worker context: WorkerContextBase.__init__ on a config, a service   *)
(* name, a method name and a data dict.                                    *)
(***************************************************************************)
\* dict.get(k, default)
Get(d, k, default) == IF k \in DOMAIN d THEN d[k] ELSE default

\* the dict left by dict.pop(k, default)
Popped(d, k) == [x \in DOMAIN d \ {k} |-> d[x]]

\* the Python slice lst[n:]: a negative n counts from the end, and a start
\* outside the list is clipped to it
SliceFrom(lst, n) ==
    LET len == Len(lst)
        first == IF n < 0 THEN (IF len + n < 0 THEN 0 ELSE len + n)
                          ELSE (IF n > len THEN len ELSE n)
    IN  SubSeq(lst, first + 1, len)

\* the configs: parent_calls_tracked left out, or set to a non-negative number
Configs == {EmptyDict} \cup {[k \in {PARENT_CALLS_KEY} |-> n] : n \in 0..MaxTracked}

\* a stack of n call ids, [str(x) for x in range(n)]
IdStack(n) == [i \in 1..n |-> ToString(i - 1)]

\* the parent stacks: short ones and one longer than the default tracks
Stacks == {IdStack(n) : n \in (0..MaxStack) \cup {DEFAULT_PARENT_CALLS_TRACKED + 2}}

\* the data dicts a worker is spawned with: with or without a call id stack,
\* with or without another entry
DataDicts ==
    {EmptyDict, [language |-> "en"]}
        \cup {[call_id_stack |-> S] : S \in Stacks}
        \cup {[call_id_stack |-> S, language |-> "en"] : S \in Stacks}
        \cup {[secret |-> "s"], [language |-> "en", user_id |-> "u", secret |-> "s"]}
        \cup {[call_id_stack |-> S, auth_token |-> "t", secret |-> "s"] : S \in Stacks}

ServiceNames == {"baz", "parent"}
MethodNames == {"long"}
\* the values new_call_id() returns
UniqueIds == {"0", "1"}

\* the data argument of the constructor: None or a dict
DataArgs == {{}} \cup {{d} : d \in DataDicts}

\* WorkerContextBase.__init__ up to self.data: parent_calls_tracked from the
\* config or the default, the names, and data or {} when data is None
WorkerContextBase ==
    /\ ctx_pc = "new"
    /\ worker_ctx' = [NoCtx EXCEPT
           !.parent_calls_tracked = Get(config, PARENT_CALLS_KEY, DEFAULT_PARENT_CALLS_TRACKED),
           !.method_name = ctx_args.method_name,
           !.service_name = service_name,
           !.data = IF ctx_args.data = {} THEN EmptyDict
                    ELSE CHOOSE d \in ctx_args.data : TRUE]
    /\ ctx_pc' = "init_call_id"
    /\ UNCHANGED <<cvars, tvars, hvars, rpcvars, hdrvars, config, service_name, ctx_args>>

\* _init_call_id: the stack is popped from data ([] when there is none) and a
\* new unique id is drawn
init_call_id(u) ==
    /\ ctx_pc = "init_call_id"
    /\ worker_ctx' = [worker_ctx EXCEPT
           !.parent_call_stack = Get(worker_ctx.data, WORKER_CALL_ID_STACK_KEY, <<>>),
           !.data = Popped(worker_ctx.data, WORKER_CALL_ID_STACK_KEY),
           !.unique_id = u]
    /\ ctx_pc' = "call_id"
    /\ UNCHANGED <<cvars, tvars, hvars, rpcvars, hdrvars, config, service_name, ctx_args>>

\* '{}.{}.{}'.format(service_name, method_name, unique_id)
FormatCallId(service, method, unique) == service \o "." \o method \o "." \o unique

\* self.call_id = ...
set_call_id ==
    /\ ctx_pc = "call_id"
    /\ worker_ctx' = [worker_ctx EXCEPT
           !.call_id = FormatCallId(worker_ctx.service_name, worker_ctx.method_name,
                                    worker_ctx.unique_id)]
    /\ ctx_pc' = "call_id_stack"
    /\ UNCHANGED <<cvars, tvars, hvars, rpcvars, hdrvars, config, service_name, ctx_args>>

\* n = -parent_calls_tracked; call_id_stack = parent_call_stack[n:] with the
\* call id appended; immediate_parent_call_id = parent_call_stack[-1], or
\* None on IndexError
set_call_id_stack ==
    /\ ctx_pc = "call_id_stack"
    /\ LET n == -worker_ctx.parent_calls_tracked
           parent == worker_ctx.parent_call_stack
       IN  worker_ctx' = [worker_ctx EXCEPT
               !.call_id_stack = Append(SliceFrom(parent, n), worker_ctx.call_id),
               !.immediate_parent_call_id =
                   IF Len(parent) = 0 THEN "None" ELSE parent[Len(parent)]]
    /\ ctx_pc' = "done"
    /\ UNCHANGED <<cvars, tvars, hvars, rpcvars, hdrvars, config, service_name, ctx_args>>

(***************************************************************************)
(* RPC: WorkerContext and the context headers.                             *)
(***************************************************************************)
\* WorkerContextBase.__init__ as one function of its inputs
WorkerContext(cfg, service, method, data_arg, unique) ==
    LET data == IF data_arg = {} THEN EmptyDict ELSE CHOOSE d \in data_arg : TRUE
        tracked == Get(cfg, PARENT_CALLS_KEY, DEFAULT_PARENT_CALLS_TRACKED)
        parent == Get(data, WORKER_CALL_ID_STACK_KEY, <<>>)
        call_id == FormatCallId(service, method, unique)
    IN  [parent_calls_tracked |-> tracked, method_name |-> method, service_name |-> service,
         data |-> Popped(data, WORKER_CALL_ID_STACK_KEY),
         parent_call_stack |-> parent, unique_id |-> unique, call_id |-> call_id,
         call_id_stack |-> Append(SliceFrom(parent, -tracked), call_id),
         immediate_parent_call_id |->
             IF Len(parent) = 0 THEN "None" ELSE parent[Len(parent)]]

\* WorkerContext.context_keys
NAMEKO_CONTEXT_KEYS == {"language", "user_id", "auth_token", WORKER_CALL_ID_STACK_KEY}

\* the keys a data dict or a header may have in the model
DataKeys == NAMEKO_CONTEXT_KEYS \cup {"secret"}

\* a context_data that passes on the stack the worker was given, not its own
context_data_parent_stack(ctx) ==
    LET key_data == [k \in DOMAIN ctx.data \cap NAMEKO_CONTEXT_KEYS |-> ctx.data[k]]
    IN  [k \in DOMAIN key_data \cup {WORKER_CALL_ID_STACK_KEY} |->
            IF k = WORKER_CALL_ID_STACK_KEY THEN ctx.parent_call_stack ELSE key_data[k]]

\* an unfiltered context_data: every item of data, and the call id stack
context_data_unfiltered(ctx) ==
    [k \in DOMAIN ctx.data \cup {WORKER_CALL_ID_STACK_KEY} |->
        IF k = WORKER_CALL_ID_STACK_KEY THEN ctx.call_id_stack ELSE ctx.data[k]]

\* WorkerContextBase.context_data: the items of data under a context key, and
\* the call id stack
context_data(ctx) ==
    LET key_data == [k \in DOMAIN ctx.data \cap NAMEKO_CONTEXT_KEYS |-> ctx.data[k]]
    IN  [k \in DOMAIN key_data \cup {WORKER_CALL_ID_STACK_KEY} |->
            IF k = WORKER_CALL_ID_STACK_KEY THEN ctx.call_id_stack ELSE key_data[k]]

\* WorkerContextBase.get_context_data: the incoming items under a context key
get_context_data(incoming) ==
    [k \in DOMAIN incoming \cap NAMEKO_CONTEXT_KEYS |-> incoming[k]]

\* the header a context key travels in, and the key of a header
HeaderName(k) == "nameko." \o k
StripHeaderName(h) == CHOOSE k \in DataKeys : HeaderName(k) = h

\* HeaderEncoder.get_message_headers: the worker's context_data, each key
\* under its header name
get_message_headers(ctx) ==
    LET data == context_data(ctx)
    IN  [h \in {HeaderName(k) : k \in DOMAIN data} |-> data[StripHeaderName(h)]]

\* HeaderDecoder.unpack_message_headers: the headers under their keys, then
\* get_context_data
unpack_message_headers(message) ==
    get_context_data([k \in {StripHeaderName(h) : h \in DOMAIN message.headers} |->
                          message.headers[HeaderName(k)]])

\* a request as MethodProxy.__call__ publishes it
RequestMsg(routing_key, reply_to, correlation_id, headers) ==
    [kind |-> "request", routing_key |-> routing_key, reply_to |-> reply_to,
     correlation_id |-> correlation_id, headers |-> headers,
     body |-> [args |-> <<>>, kwargs |-> EmptyDict]]

\* worker_ctx.context_data is read on the constructed worker context
read_context_data ==
    /\ ctx_pc = "done" /\ context_read = {}
    /\ context_read' = {context_data(worker_ctx)}
    /\ UNCHANGED <<cvars, tvars, hvars, rpcvars, config, service_name, ctx_args, worker_ctx,
                   ctx_pc, headers_sent, data_received>>

\* MethodProxy.__call__: headers = self.get_message_headers(worker_ctx)
send_headers ==
    /\ ctx_pc = "done" /\ headers_sent = {}
    /\ headers_sent' = {get_message_headers(worker_ctx)}
    /\ UNCHANGED <<cvars, tvars, hvars, rpcvars, config, service_name, ctx_args, worker_ctx,
                   ctx_pc, context_read, data_received>>

\* RpcProvider.handle_message on the request with these headers:
\* context_data = self.unpack_message_headers(worker_ctx_cls, message)
receive_headers ==
    /\ data_received = {}
    /\ \E headers \in headers_sent :
           data_received' =
               {unpack_message_headers(RequestMsg("child.child_do", "", 1, headers))}
    /\ UNCHANGED <<cvars, tvars, hvars, rpcvars, config, service_name, ctx_args, worker_ctx,
                   ctx_pc, context_read, headers_sent>>

\* a container of any config and name about to construct a worker context
\* for any method and data
CtxInit ==
    /\ ContainerInit
    /\ config \in Configs
    /\ service_name \in ServiceNames
    /\ ctx_args \in [method_name : MethodNames, data : DataArgs]
    /\ worker_ctx = NoCtx
    /\ ctx_pc = "new"
    /\ context_read = {} /\ headers_sent = {} /\ data_received = {}
    /\ RpcInit

CtxNext ==
    \/ WorkerContextBase
    \/ \E u \in UniqueIds : init_call_id(u)
    \/ set_call_id
    \/ set_call_id_stack
    \/ read_context_data
    \/ send_headers
    \/ receive_headers

CtxSpec == CtxInit /\ [][CtxNext]_vars

(***************************************************************************)
(* RPC: errors on the wire.                                                *)
(***************************************************************************)
\* RemoteErrorWrapper(exc).serialize(): the error envelope of an exception
Serialize(e) == [exc_type |-> e.exc_type, value |-> e.value]

\* RemoteErrorWrapper.deserialize(error): the RemoteError raised by the proxy
Deserialize(error) ==
    [exc_type |-> "RemoteError", value |-> error.exc_type \o " " \o error.value]

\* the exception a service method raises, and MethodNotFound(method_name)
UserError == [exc_type |-> "ValueError", value |-> "egg"]
MethodNotFound(method) == [exc_type |-> "MethodNotFound", value |-> method]

(***************************************************************************)
(* RPC: messages, workers and the broker.                                  *)
(***************************************************************************)
\* a reply that carries the correlation id of the first request
ReplyMsg_first_id(message, result, error) ==
    [kind |-> "reply", routing_key |-> message.reply_to, reply_to |-> "",
     correlation_id |-> 1, headers |-> EmptyDict,
     body |-> [result |-> result, error |-> error]]

\* the reply Responder.send_response publishes for a message: routed by the
\* message's reply_to, with its correlation id
ReplyMsg(message, result, error) ==
    [kind |-> "reply", routing_key |-> message.reply_to, reply_to |-> "",
     correlation_id |-> message.correlation_id, headers |-> EmptyDict,
     body |-> [result |-> result, error |-> error]]

\* the method names a routing key can end in
RoutedMethods == (UNION {RpcMethods[s] : s \in RpcServices}) \cup {"missing"}

\* the service whose rpc queue, bound with '{service_name}.*', gets a request
RoutedTo(routing_key) ==
    CHOOSE s \in RpcServices : \E m \in RoutedMethods : routing_key = s \o "." \o m

\* routing_key.split(".")[-1]
MethodOf(routing_key) ==
    CHOOSE m \in RoutedMethods : \E s \in RpcServices : routing_key = s \o "." \o m

\* a lookup that falls back to every provider when no key matches
ProvidersFor_fallback(s, routing_key) ==
    IF \E p \in rpc_providers[s] : s \o "." \o p = routing_key
    THEN {p \in rpc_providers[s] : s \o "." \o p = routing_key}
    ELSE rpc_providers[s]

\* RpcConsumer.get_provider_for_method: the providers whose key is the routing key
ProvidersFor(s, routing_key) ==
    {p \in rpc_providers[s] : s \o "." \o p = routing_key}

\* LoggingWorkerContext: data.get('call_id_stack') if data else None, as the
\* empty set for None or the set of the one stack
Observed(data_arg) ==
    IF data_arg = {} THEN {}
    ELSE LET data == CHOOSE d \in data_arg : TRUE
         IN  IF WORKER_CALL_ID_STACK_KEY \in DOMAIN data
             THEN {data[WORKER_CALL_ID_STACK_KEY]} ELSE {}

\* the workers of the RPC part that have not ended
RActive == {i \in 1..Len(rworkers) : rworkers[i].pc \notin {"done", "killed", "failed"}}

\* the container variables and the worker context under construction
nonrpc == <<cvars, tvars, hvars, wctx>>

\* ServiceContainer.spawn_worker for an rpc provider: a worker context is made
\* from context_data with the next call id, and the worker starts; `asked`
\* records whether the provider had asked to be unregistered by then
SpawnRpcWorker(s, m, data_arg, message) ==
    /\ rworkers' = Append(rworkers,
           [svc |-> s, method |-> m, pc |-> "method",
            ctx |-> WorkerContext(config, s, m, data_arg, ToString(call_count)),
            message |-> message, cid |-> 0, result |-> "None", exc |-> NoExc,
            asked |-> m \in unregistering[s]])
    /\ call_count' = call_count + 1
    /\ stack_request' = Append(stack_request, Observed(data_arg))

\* RpcConsumer.handle_result up to the publish: exc wrapped and serialized,
\* and Responder.send_response publishes the reply
Respond(message, result, e) ==
    LET error == IF e = NoExc THEN NoExc ELSE Serialize(e)
        reply == ReplyMsg(message, result, error)
    IN  /\ broker' = broker \cup {reply}
        /\ replies' = [replies EXCEPT ![message.correlation_id] = Append(@, reply)]
        /\ rlog' = [rlog EXCEPT ![message.correlation_id] = Append(@, "reply")]

\* queue_consumer.ack_message(message)
Ack(message) ==
    /\ acks' = [acks EXCEPT ![message.correlation_id] = @ + 1]
    /\ rlog' = [rlog EXCEPT ![message.correlation_id] = Append(@, "ack")]

\* the container of s has been stopped or killed
Ended(s) == svc_state[s] \in {"stopped", "dead"}

\* ServiceContainer.kill as the services of the RPC part see it: the workers
\* of the container are cancelled, its consumers are gone and it is dead
KillContainer(s) ==
    /\ svc_state' = [svc_state EXCEPT ![s] = "dead"]
    /\ consuming' = [consuming EXCEPT ![s] = {}]

\* the workers after the container of s was killed, worker f having failed
Killed(s, f) ==
    [i \in 1..Len(rworkers) |->
        IF i = f THEN [rworkers[i] EXCEPT !.pc = "failed"]
        ELSE IF rworkers[i].svc = s /\ i \in RActive
             THEN [rworkers[i] EXCEPT !.pc = "killed"] ELSE rworkers[i]]

(***************************************************************************)
(* RPC: calls.                                                             *)
(***************************************************************************)
\* entrypoint_hook(container, "grandparent_do"): the method is run in a
\* worker spawned without context data
entrypoint_hook(s, m) ==
    /\ nrpc < MaxRpcOps /\ svc_state[s] = "running"
    /\ nrpc' = nrpc + 1
    /\ SpawnRpcWorker(s, m, {}, NoMessage)
    /\ UNCHANGED <<regvars, lvars, msgvars, hook_results, consuming, unrouted, ncids,
                   svc_state, nonrpc>>

\* a client outside the services calls a method that does not exist
client_call(s) ==
    /\ nrpc < MaxRpcOps
    /\ nrpc' = nrpc + 1
    /\ ncids' = ncids + 1
    /\ broker' = broker \cup {RequestMsg(s \o ".missing", "client", ncids + 1, EmptyDict)}
    /\ UNCHANGED <<regvars, lvars, replies, acks, rlog, obsvars, consuming, rworkers,
                   unrouted, call_count, svc_state, nonrpc>>

\* a proxy that publishes the request while its reply event is not yet in the
\* listener's map
MethodProxy_call_unregistered(i) ==
    /\ i \in RActive /\ rworkers[i].pc = "method" /\ rworkers[i].method \in DOMAIN Callee
    /\ LET w == rworkers[i]
           to == Callee[w.method]
           correlation_id == ncids + 1
       IN  /\ ncids' = correlation_id
           /\ broker' = broker \cup
                  {RequestMsg(to.service \o "." \o to.method, ReplyRoutingKey(w.svc),
                              correlation_id, get_message_headers(w.ctx))}
           /\ rworkers' = [rworkers EXCEPT ![i].pc = "reply_wait", ![i].cid = correlation_id]
    /\ UNCHANGED <<regvars, lvars, replies, acks, rlog, obsvars, consuming, unrouted,
                   call_count, svc_state, nrpc, nonrpc>>

\* MethodProxy.__call__ up to the wait: the headers of the calling worker, a
\* fresh correlation id, the reply event registered, the request published
MethodProxy_call(i) ==
    /\ i \in RActive /\ rworkers[i].pc = "method" /\ rworkers[i].method \in DOMAIN Callee
    /\ LET w == rworkers[i]
           to == Callee[w.method]
           correlation_id == ncids + 1
       IN  /\ ncids' = correlation_id
           /\ reply_events' = [reply_events EXCEPT ![w.svc] = @ \cup {correlation_id}]
           /\ broker' = broker \cup
                  {RequestMsg(to.service \o "." \o to.method, ReplyRoutingKey(w.svc),
                              correlation_id, get_message_headers(w.ctx))}
           /\ rworkers' = [rworkers EXCEPT ![i].pc = "reply_wait", ![i].cid = correlation_id]
    /\ UNCHANGED <<regvars, events, unknown, replies, acks, rlog, obsvars, consuming, unrouted,
                   call_count, svc_state, nrpc, nonrpc>>

\* MethodProxy.__call__ after reply_event.wait(): the error of the reply is
\* raised as a RemoteError, or its result returned; the service method returns
\* what the proxy returned
MethodProxy_return(i) ==
    /\ i \in RActive /\ rworkers[i].pc = "reply_wait"
    /\ events[rworkers[i].cid] # <<>>
    /\ LET resp_body == events[rworkers[i].cid][1]
       IN  rworkers' = [rworkers EXCEPT
               ![i].pc = "result",
               ![i].result = IF resp_body.error # NoExc THEN "None" ELSE resp_body.result,
               ![i].exc = IF resp_body.error # NoExc THEN Deserialize(resp_body.error)
                          ELSE NoExc]
    /\ UNCHANGED <<regvars, lvars, msgvars, obsvars, consuming, unrouted, call_count, ncids,
                   svc_state, nrpc, nonrpc>>

\* a service method that calls nothing returns 1 or raises
method_returns(i, raised) ==
    /\ i \in RActive /\ rworkers[i].pc = "method" /\ rworkers[i].method \notin DOMAIN Callee
    /\ rworkers' = [rworkers EXCEPT
           ![i].pc = "result",
           ![i].result = IF raised THEN "None" ELSE "1",
           ![i].exc = IF raised THEN UserError ELSE NoExc]
    /\ UNCHANGED <<regvars, lvars, msgvars, obsvars, consuming, unrouted, call_count, ncids,
                   svc_state, nrpc, nonrpc>>

\* handle_result of a worker spawned by entrypoint_hook: the caller of the
\* hook gets the result or the exception
hook_handle_result(i) ==
    /\ i \in RActive /\ rworkers[i].pc = "result" /\ rworkers[i].message = NoMessage
    /\ hook_results' = Append(hook_results,
           [call_id |-> rworkers[i].ctx.call_id, result |-> rworkers[i].result,
            exc |-> rworkers[i].exc])
    /\ rworkers' = [rworkers EXCEPT ![i].pc = "done"]
    /\ UNCHANGED <<regvars, lvars, msgvars, stack_request, consuming, unrouted, call_count,
                   ncids, svc_state, nrpc, nonrpc>>

\* a _run_worker that calls handle_result in a finally clause: the reply is
\* published and the request acknowledged although a hook has raised
run_worker_hook_raises_finally(i) ==
    /\ i \in RActive /\ rworkers[i].pc \in {"method", "result"}
    /\ nrpc < MaxRpcOps
    /\ nrpc' = nrpc + 1
    /\ KillContainer(rworkers[i].svc)
    /\ rworkers' = Killed(rworkers[i].svc, i)
    /\ IF rworkers[i].message # NoMessage
       THEN LET message == rworkers[i].message
                reply == ReplyMsg(message, rworkers[i].result, NoExc)
            IN  /\ broker' = broker \cup {reply}
                /\ replies' = [replies EXCEPT ![message.correlation_id] = Append(@, reply)]
                /\ acks' = [acks EXCEPT ![message.correlation_id] = @ + 1]
                /\ rlog' = [rlog EXCEPT ![message.correlation_id] = @ \o <<"reply", "ack">>]
       ELSE UNCHANGED msgvars
    /\ UNCHANGED <<regvars, lvars, obsvars, unrouted, call_count, ncids, nonrpc>>

\* _run_worker of an rpc worker: inject or worker_setup raises before the
\* method, or worker_result, worker_teardown or release after it; the
\* exception leaves _run_worker before handle_result is reached and the
\* worker's exit handler kills the container
run_worker_hook_raises(i) ==
    /\ i \in RActive /\ rworkers[i].pc \in {"method", "result"}
    /\ nrpc < MaxRpcOps
    /\ nrpc' = nrpc + 1
    /\ KillContainer(rworkers[i].svc)
    /\ rworkers' = Killed(rworkers[i].svc, i)
    /\ UNCHANGED <<regvars, lvars, msgvars, obsvars, unrouted, call_count, ncids, nonrpc>>

\* a handle_result that acknowledges the request whether or not the reply
\* was published
handle_result_always_acks(i, published) ==
    /\ i \in RActive /\ rworkers[i].pc = "result" /\ rworkers[i].message # NoMessage
    /\ IF published
       THEN /\ Respond(rworkers[i].message, rworkers[i].result, rworkers[i].exc)
            /\ rworkers' = [rworkers EXCEPT ![i].pc = "ack"]
            /\ UNCHANGED <<acks, consuming, svc_state, nrpc>>
       ELSE /\ nrpc < MaxRpcOps
            /\ nrpc' = nrpc + 1
            /\ Ack(rworkers[i].message)
            /\ KillContainer(rworkers[i].svc)
            /\ rworkers' = Killed(rworkers[i].svc, i)
            /\ UNCHANGED <<broker, replies>>
    /\ UNCHANGED <<regvars, lvars, obsvars, unrouted, call_count, ncids, nonrpc>>

\* RpcProvider.handle_result -> RpcConsumer.handle_result: the reply is
\* published; when the publish fails the exception leaves the worker and its
\* container is killed
handle_result(i, published) ==
    /\ i \in RActive /\ rworkers[i].pc = "result" /\ rworkers[i].message # NoMessage
    /\ IF published
       THEN /\ Respond(rworkers[i].message, rworkers[i].result, rworkers[i].exc)
            /\ rworkers' = [rworkers EXCEPT ![i].pc = "ack"]
            /\ UNCHANGED <<acks, consuming, svc_state, nrpc>>
       ELSE /\ nrpc < MaxRpcOps
            /\ nrpc' = nrpc + 1
            /\ KillContainer(rworkers[i].svc)
            /\ rworkers' = Killed(rworkers[i].svc, i)
            /\ UNCHANGED <<msgvars>>
    /\ UNCHANGED <<regvars, lvars, obsvars, unrouted, call_count, ncids, nonrpc>>

\* RpcConsumer.handle_result after send_response: the request is acknowledged
handle_result_ack(i) ==
    /\ i \in RActive /\ rworkers[i].pc = "ack"
    /\ Ack(rworkers[i].message)
    /\ rworkers' = [rworkers EXCEPT ![i].pc = "done"]
    /\ UNCHANGED <<regvars, lvars, broker, replies, obsvars, consuming, unrouted, call_count,
                   ncids, svc_state, nrpc, nonrpc>>

(***************************************************************************)
(* RPC: the consumer and the reply listener.                               *)
(***************************************************************************)
\* RpcConsumer.handle_message: a request is delivered to the consumer of the
\* service, which passes it to the provider of the method, whose
\* handle_message unpacks the headers and spawns a worker; without a provider
\* MethodNotFound is raised and handle_result(message, container, None, exc)
\* begins
RpcConsumer_handle_message(message) ==
    /\ message \in broker /\ message.kind = "request"
    /\ LET s == RoutedTo(message.routing_key)
       IN  /\ ~Ended(s) /\ RpcQueue(s) \in consuming[s]
           /\ broker' = broker \ {message}
           /\ \/ /\ ProvidersFor(s, message.routing_key) # {}
                 /\ \E p \in ProvidersFor(s, message.routing_key) :
                        SpawnRpcWorker(s, p, {unpack_message_headers(message)}, message)
                 /\ UNCHANGED unrouted
              \/ /\ ProvidersFor(s, message.routing_key) = {}
                 /\ unrouted' = Append(unrouted,
                        [svc |-> s, message |-> message, pc |-> "respond",
                         exc |-> MethodNotFound(MethodOf(message.routing_key))])
                 /\ UNCHANGED <<rworkers, call_count, stack_request>>
    /\ UNCHANGED <<regvars, lvars, replies, acks, rlog, hook_results, consuming, ncids,
                   svc_state, nrpc, nonrpc>>

\* RpcConsumer.handle_result for a request without provider: the reply with
\* the error is published; when the publish fails the exception leaves
\* handle_message and nothing is acknowledged
unrouted_handle_result(j, published) ==
    /\ j \in 1..Len(unrouted) /\ unrouted[j].pc = "respond"
    /\ ~Ended(unrouted[j].svc)
    /\ IF published
       THEN /\ Respond(unrouted[j].message, "None", unrouted[j].exc)
            /\ unrouted' = [unrouted EXCEPT ![j].pc = "ack"]
            /\ UNCHANGED <<acks, nrpc>>
       ELSE /\ nrpc < MaxRpcOps
            /\ nrpc' = nrpc + 1
            /\ unrouted' = [unrouted EXCEPT ![j].pc = "failed"]
            /\ UNCHANGED msgvars
    /\ UNCHANGED <<regvars, lvars, obsvars, consuming, rworkers, call_count, ncids,
                   svc_state, nonrpc>>

\* ... and the request is acknowledged
unrouted_ack(j) ==
    /\ j \in 1..Len(unrouted) /\ unrouted[j].pc = "ack"
    /\ ~Ended(unrouted[j].svc)
    /\ Ack(unrouted[j].message)
    /\ unrouted' = [unrouted EXCEPT ![j].pc = "done"]
    /\ UNCHANGED <<regvars, lvars, broker, replies, obsvars, consuming, rworkers, call_count,
                   ncids, svc_state, nrpc, nonrpc>>

\* a listener that keeps the event of a correlation id and sends it every
\* reply that has the id
ReplyListener_handle_message_keeps(s, message) ==
    /\ message \in broker /\ message.kind = "reply"
    /\ message.routing_key = ReplyRoutingKey(s)
    /\ ~Ended(s) /\ ReplyQueue(s) \in consuming[s]
    /\ broker' = broker \ {message}
    /\ IF message.correlation_id \in reply_events[s] \/ message.correlation_id \in Cids
       THEN /\ reply_events' = [reply_events EXCEPT ![s] = @ \ {message.correlation_id}]
            /\ events' = [events EXCEPT ![message.correlation_id] = Append(@, message.body)]
            /\ UNCHANGED unknown
       ELSE /\ unknown' = [unknown EXCEPT ![s] = @ \cup {message.correlation_id}]
            /\ UNCHANGED <<reply_events, events>>
    /\ UNCHANGED <<regvars, replies, acks, rlog, obsvars, consuming, rworkers, unrouted,
                   call_count, ncids, svc_state, nrpc, nonrpc>>

\* ReplyListener.handle_message: a reply is delivered to the listener whose
\* routing key it has and acknowledged, so it leaves the broker; the event of
\* its correlation id is popped and sent the body, and a reply without event
\* is logged and dropped
ReplyListener_handle_message(s, message) ==
    /\ message \in broker /\ message.kind = "reply"
    /\ message.routing_key = ReplyRoutingKey(s)
    /\ ~Ended(s) /\ ReplyQueue(s) \in consuming[s]
    /\ broker' = broker \ {message}
    /\ IF message.correlation_id \in reply_events[s]
       THEN /\ reply_events' = [reply_events EXCEPT ![s] = @ \ {message.correlation_id}]
            /\ events' = [events EXCEPT ![message.correlation_id] = Append(@, message.body)]
            /\ UNCHANGED unknown
       ELSE /\ unknown' = [unknown EXCEPT ![s] = @ \cup {message.correlation_id}]
            /\ UNCHANGED <<reply_events, events>>
    /\ UNCHANGED <<regvars, replies, acks, rlog, obsvars, consuming, rworkers, unrouted,
                   call_count, ncids, svc_state, nrpc, nonrpc>>

\* the broker delivers a second time the reply that resumed worker i's call
redelivered_reply(i) ==
    /\ nrpc < MaxRpcOps
    /\ i \in 1..Len(rworkers) /\ rworkers[i].cid # 0 /\ events[rworkers[i].cid] # <<>>
    /\ nrpc' = nrpc + 1
    /\ broker' = broker \cup
           {[kind |-> "reply", routing_key |-> ReplyRoutingKey(rworkers[i].svc),
             reply_to |-> "", correlation_id |-> rworkers[i].cid, headers |-> EmptyDict,
             body |-> events[rworkers[i].cid][1]]}
    /\ UNCHANGED <<regvars, lvars, replies, acks, rlog, obsvars, consuming, rworkers,
                   unrouted, call_count, ncids, svc_state, nonrpc>>

\* a reply without correlation id reaches the reply queue of s
stray_reply(s) ==
    /\ nrpc < MaxRpcOps
    /\ nrpc' = nrpc + 1
    /\ broker' = broker \cup
           {[kind |-> "reply", routing_key |-> ReplyRoutingKey(s), reply_to |-> "",
             correlation_id |-> 0, headers |-> EmptyDict,
             body |-> [result |-> "None", error |-> NoExc]]}
    /\ UNCHANGED <<regvars, lvars, replies, acks, rlog, obsvars, consuming, rworkers,
                   unrouted, call_count, ncids, svc_state, nonrpc>>

(***************************************************************************)
(* RPC: the end of a container.                                            *)
(***************************************************************************)
\* container.kill(exc) on the container of s
container_kill(s) ==
    /\ nrpc < MaxRpcOps /\ ~Ended(s)
    /\ nrpc' = nrpc + 1
    /\ KillContainer(s)
    /\ rworkers' = Killed(s, 0)
    /\ UNCHANGED <<regvars, lvars, msgvars, obsvars, unrouted, call_count, ncids,
                   nonrpc>>

\* ProviderCollector._providers_registered: a provider has registered with
\* the consumer of s
providers_registered(s) == RpcMethods[s] # {}

\* container.stop() on the container of s begins: dependencies.entrypoints.all
\* .stop() calls stop() on every rpc provider, each in its own green thread.
\* The call is the first one, or a further one made while an earlier stop()
\* is past its entrypoints and has not ended (_died is not fired yet)
container_stop(s) ==
    /\ nrpc < MaxRpcOps
    /\ \/ svc_state[s] = "running"
       \/ /\ svc_state[s] = "stopping" /\ providers_registered(s)
          /\ \A m \in RpcMethods[s] : ppc[s][m] = "stopped"
    /\ nrpc' = nrpc + 1
    /\ svc_state' = [svc_state EXCEPT ![s] = "stopping"]
    /\ ppc' = [ppc EXCEPT ![s] = [m \in RpcMethods[s] |-> "stop"]]
    /\ UNCHANGED <<rpc_providers, unregistering, unregistered, lvars, msgvars, obsvars,
                   consuming, rworkers, unrouted, call_count, ncids, nonrpc>>

\* an unregister_provider that unregisters from the queue consumer on every
\* call, whatever providers remain
unregister_provider_eager(s, m) ==
    /\ svc_state[s] = "stopping" /\ ppc[s][m] = "stop"
    /\ unregistering' = [unregistering EXCEPT ![s] = @ \cup {m}]
    /\ ppc' = [ppc EXCEPT ![s][m] = "unregister"]
    /\ UNCHANGED <<rpc_providers, unregistered, lvars, msgvars, obsvars, consuming, rworkers,
                   unrouted, call_count, ncids, svc_state, nrpc, nonrpc>>

\* an unregister_provider that removes the provider from the providers as
\* soon as it asks, before the wait for the event
unregister_provider_removes_first(s, m) ==
    /\ svc_state[s] = "stopping" /\ ppc[s][m] = "stop"
    /\ unregistering' = [unregistering EXCEPT ![s] = @ \cup {m}]
    /\ rpc_providers' = [rpc_providers EXCEPT ![s] = @ \ {m}]
    /\ LET remaining_providers == rpc_providers'[s] \ unregistering'[s]
       IN  ppc' = [ppc EXCEPT ![s][m] =
                      IF remaining_providers = {} THEN "unregister" ELSE "wait"]
    /\ UNCHANGED <<unregistered, lvars, msgvars, obsvars, consuming, rworkers,
                   unrouted, call_count, ncids, svc_state, nrpc, nonrpc>>

\* RpcProvider.stop -> RpcConsumer.unregister_provider(provider) up to its
\* first suspension: the provider is added to the unregistering ones; when
\* none remains the consumer begins to unregister from the queue consumer,
\* otherwise the caller waits for the event
unregister_provider(s, m) ==
    /\ svc_state[s] = "stopping" /\ ppc[s][m] = "stop"
    /\ unregistering' = [unregistering EXCEPT ![s] = @ \cup {m}]
    /\ LET remaining_providers == rpc_providers[s] \ unregistering'[s]
       IN  ppc' = [ppc EXCEPT ![s][m] =
                      IF remaining_providers = {} THEN "unregister" ELSE "wait"]
    /\ UNCHANGED <<rpc_providers, unregistered, lvars, msgvars, obsvars, consuming, rworkers,
                   unrouted, call_count, ncids, svc_state, nrpc, nonrpc>>

\* queue_consumer.unregister_provider(self) returns: the rpc queue is no
\* longer consumed, and the event is sent; Event.send on an event that was
\* sent before fails its assertion, which leaves the provider's stop()
unregister_from_queue_consumer(s, m) ==
    /\ svc_state[s] = "stopping" /\ ppc[s][m] = "unregister"
    /\ consuming' = [consuming EXCEPT ![s] = @ \ {RpcQueue(s)}]
    /\ unregistered' = [unregistered EXCEPT ![s] = @ + 1]
    /\ ppc' = [ppc EXCEPT ![s][m] = IF unregistered[s] = 0 THEN "wait" ELSE "raised"]
    /\ UNCHANGED <<rpc_providers, unregistering, lvars, msgvars, obsvars, rworkers, unrouted,
                   call_count, ncids, svc_state, nrpc, nonrpc>>

\* self._unregistered_from_queue_consumer.wait() returns once the event was
\* sent; the provider is removed from the providers and its stop() returns
unregister_provider_return(s, m) ==
    /\ svc_state[s] = "stopping" /\ ppc[s][m] = "wait"
    /\ unregistered[s] > 0
    /\ rpc_providers' = [rpc_providers EXCEPT ![s] = @ \ {m}]
    /\ ppc' = [ppc EXCEPT ![s][m] = "stopped"]
    /\ UNCHANGED <<unregistering, unregistered, lvars, msgvars, obsvars, consuming, rworkers,
                   unrouted, call_count, ncids, svc_state, nrpc, nonrpc>>

\* RpcConsumer.stop: the queues it unregisters from the queue consumer, its
\* own when no provider registered and none otherwise; the event is sent after
\* the unregistration
RpcConsumer_stop(s) == IF ~providers_registered(s) THEN {RpcQueue(s)} ELSE {}

\* container.stop() after the entrypoints have stopped and the worker pool has
\* drained: the injections and the nested dependencies are stopped
\* (ReplyListener.stop unregisters from the queue consumer, RpcConsumer.stop
\* does when no provider registered) and the container has stopped
container_stopped(s) ==
    /\ svc_state[s] = "stopping"
    /\ \A m \in RpcMethods[s] : ppc[s][m] \in {"stopped", "raised"}
    /\ \A i \in RActive : rworkers[i].svc # s
    /\ consuming' = [consuming EXCEPT ![s] = @ \ (RpcConsumer_stop(s) \cup {ReplyQueue(s)})]
    /\ unregistered' = [unregistered EXCEPT ![s] = @ + Cardinality(RpcConsumer_stop(s))]
    /\ svc_state' = [svc_state EXCEPT ![s] = "stopped"]
    /\ UNCHANGED <<rpc_providers, unregistering, ppc, lvars, msgvars, obsvars, rworkers,
                   unrouted, call_count, ncids, nrpc, nonrpc>>

RpcNext ==
    \/ \E s \in {"grandparent"} : entrypoint_hook(s, "grandparent_do")
    \/ \E s \in {"child"} : client_call(s)
    \/ \E i \in 1..Len(rworkers) : MethodProxy_call(i)
    \/ \E i \in 1..Len(rworkers) : MethodProxy_return(i)
    \/ \E i \in 1..Len(rworkers), raised \in BOOLEAN : method_returns(i, raised)
    \/ \E i \in 1..Len(rworkers) : run_worker_hook_raises(i)
    \/ \E i \in 1..Len(rworkers) : hook_handle_result(i)
    \/ \E i \in 1..Len(rworkers), published \in BOOLEAN : handle_result(i, published)
    \/ \E i \in 1..Len(rworkers) : handle_result_ack(i)
    \/ \E message \in broker : RpcConsumer_handle_message(message)
    \/ \E j \in 1..Len(unrouted), published \in BOOLEAN : unrouted_handle_result(j, published)
    \/ \E j \in 1..Len(unrouted) : unrouted_ack(j)
    \/ \E s \in RpcServices, message \in broker : ReplyListener_handle_message(s, message)
    \/ \E i \in 1..Len(rworkers) : redelivered_reply(i)
    \/ \E s \in {"grandparent"} : stray_reply(s)
    \/ \E s \in RpcServices : container_kill(s)
    \/ \E s \in RpcServices : container_stop(s)
    \/ \E s \in RpcServices, m \in RoutedMethods : m \in RpcMethods[s] /\ unregister_provider(s, m)
    \/ \E s \in RpcServices, m \in RoutedMethods :
           m \in RpcMethods[s] /\ unregister_from_queue_consumer(s, m)
    \/ \E s \in RpcServices, m \in RoutedMethods :
           m \in RpcMethods[s] /\ unregister_provider_return(s, m)
    \/ \E s \in RpcServices : container_stopped(s)

RpcSpec == Init /\ [][RpcNext]_vars

\* the queue consumer completes an unregistration it was asked for, and
\* eventlet's hub resumes a caller whose Event.wait has been fired
FairRpcSpec ==
    /\ RpcSpec
    /\ \A s \in RpcServices : \A m \in RpcMethods[s] :
           /\ WF_vars(unregister_provider(s, m))
           /\ WF_vars(unregister_from_queue_consumer(s, m))
           /\ WF_vars(unregister_provider_return(s, m))

(***************************************************************************)
(* Properties of stop()                                                    *)
(***************************************************************************)
\* the entrypoint's stop hook has been invoked and has returned
EntrypointStopped(e) == calls[e]["stop"] >= 1
\* some injection's stop hook is invoked in this step
InjectionStopInvoked == \E i \in Injections : calls'[i]["stop"] > calls[i]["stop"]

\* stop() of caller c has got past waitall()
StopPastWaitall(c) ==
    pc[c] \in {"stop_injections", "stop_nested", "stop_kill_active", "stop_kill_protected"}

\* C1: in stop(), every entrypoint's stop() has returned when the wait for the
\* worker pool begins, and an injection's stop() is invoked only once every
\* entrypoint has stopped and the worker pool has drained: no worker runs
C1_StopOrder ==
    /\ [](\A c \in Callers : (pc[c] = "stop_waitall" \/ StopPastWaitall(c))
                                => \A e \in Entrypoints : EntrypointStopped(e))
    /\ [][InjectionStopInvoked
              => (worker_pool = {} /\ \A e \in Entrypoints : EntrypointStopped(e))]_vars

\* C1 witness: a stop() that began while a worker was running has stopped every
\* entrypoint, got through waitall() and stopped the injection
C1_Witness ==
    \E c \in Callers :
        /\ inflight[c] # {}
        /\ pc[c] = "stop_nested"
        /\ \A e \in Entrypoints : calls[e]["stop"] = 1
        /\ \A i \in Injections : calls[i]["stop"] = 1

\* the worker has run worker_result, worker_teardown and release in this order
\* after the method, and handle_result after them if it ran it
RanThrough(w) ==
    /\ Len(wlog[w]) \in {6, 7}
    /\ wlog[w][4] = "worker_result"
    /\ wlog[w][5] = "worker_teardown"
    /\ wlog[w][6] = "release"
    /\ Len(wlog[w]) = 7 => wlog[w][7] = "handle_result"

\* C2: a worker that was running when stop() was called is never cancelled by
\* that stop()'s kill loops; when it returns it has run worker_result,
\* worker_teardown, release and handle_result; and stop() is past waitall(),
\* stopping injections, only when the worker has finished
C2_InflightWorkersFinish ==
    \A c \in Callers : \A w \in inflight[c] :
        /\ exitmode[w] \notin {"stop_kill_active", "stop_kill_protected"}
        /\ exitmode[w] = "ok" => RanThrough(w)
        /\ StopPastWaitall(c) => w \notin worker_pool

\* C2 witness: a worker that was running when stop() was called has run all its
\* steps and returned, and the injection has been stopped after it
C2_Witness ==
    \E c \in Callers : \E w \in inflight[c] :
        /\ exitmode[w] = "ok" /\ Len(wlog[w]) = 7
        /\ \A i \in Injections : calls[i]["stop"] = 1
        /\ died = "ok"

(***************************************************************************)
(* Properties of kill(), wait() and the died signal                        *)
(***************************************************************************)
\* the green thread's last call was a kill(exc) that has ended
KillEnded(k) == op[k] = "kill" /\ pc[k] = Rest(k)
\* the caller's last call was a wait() that has ended
WaitEnded(c) == op[c] = "wait" /\ pc[c] = "idle"
\* _died was fired by a kill: it holds an exception
DiedByKill == died \notin {"unfired", "ok"}

\* C3: however kill(exc) calls interleave, at most one of them performs the
\* shutdown steps, and exactly one while the container has not died; when _died
\* holds an exception it is that of the first kill, and a wait() that has ended
\* then raised that exception
C3_OneKillShutsDown ==
    /\ Cardinality(eff) <= 1
    /\ (first_kill # "none" /\ ~Ready) => Cardinality(eff) = 1
    /\ DiedByKill => died = first_kill
    /\ \A c \in Callers : (WaitEnded(c) /\ DiedByKill) => outcome[c] = first_kill

\* C3 witness: two kills with different exceptions have run, the first did the
\* shutdown and fired _died, the second waited for it and has ended, and a
\* wait() raised the first kill's exception
C3_Witness ==
    \E k1 \in Tasks : \E k2 \in Tasks \ {k1} :
        /\ k1 \in eff /\ KillEnded(k1) /\ outcome[k1] = "ok"
        /\ KillEnded(k2) /\ waited[k2]
        /\ first_kill = ExcOf(k1) /\ died = ExcOf(k1)
        /\ \E c \in Callers : WaitEnded(c) /\ outcome[c] = ExcOf(k1)

\* C4: a kill(exc) called while another kill is in progress, and not cancelled
\* while it waits, is suspended until _died has fired, performs no shutdown
\* step and then returns normally
C4_SecondKillReturns ==
    \A k \in Tasks : (op[k] = "kill" /\ waited[k] /\ outcome[k] # "GreenletExit") =>
        /\ k \notin eff
        /\ pc[k] # "kill_wait" => Ready
        /\ pc[k] = Rest(k) => outcome[k] = "ok"

\* C5: in every execution _died is sent at most once
C5_DiedSentOnce == died_sends <= 1

\* C6: a stop() or kill(exc) call made once _died has fired ends at once, with
\* no hook invoked, no thread killed and _died not sent, and returns normally
C6_LateCallReturns ==
    \A t \in Tasks : (op[t] \in {"stop", "kill"} /\ late[t]) =>
        /\ pc[t] = Rest(t)
        /\ outcome[t] = "ok"

\* C7: a wait() that is suspended ends only when _died has fired; a wait() that
\* has ended raised the exception _died was fired with by kill(exc), or returned
\* normally when stop() fired it; and every suspended wait() is resumed once
\* _died has fired
C7_Wait ==
    /\ [][\A c \in Callers : (pc[c] = "wait" /\ pc'[c] # "wait") => Ready]_vars
    /\ [](\A c \in Callers : WaitEnded(c) => (Ready /\ outcome[c] = died))
    /\ \A c \in Callers : (pc[c] = "wait" /\ Ready) ~> (pc[c] = "idle")

\* C7 witness: both callers were suspended in wait(), a kill fired _died and
\* both were resumed and raised its exception
C7_Witness ==
    /\ DiedByKill
    /\ \A c \in Callers : WaitEnded(c) /\ waited[c] /\ outcome[c] = died

\* C8 as stated: a managed thread has exited with an uncaught exception while
\* the container had not died, and the container has died of a managed
\* thread's exception: _died holds that thread's exception
C8_RaisedThreadDiesWith ==
    \A t \in Managed :
        (exitmode[t] = "raised" /\ ~late[t] /\ died \in Managed) => died = ExcOf(t)

\* C8: the exit handler of a managed thread that ended with an uncaught
\* exception e calls kill(e); when no kill had begun and _died had not fired
\* this kill performs the shutdown steps, and when it has sent _died every
\* thread that was in _active_threads when it began has ended or waits in its
\* own exit handler, _died holds e and a wait() that ended raised e
C8_RaisedThreadKills ==
    \A t \in Managed : exitmode[t] = "raised" =>
        /\ op[t] = "kill"
        /\ (first_kill = ExcOf(t) /\ ~late[t]) => t \in eff
        /\ (t \in eff /\ KillEnded(t) /\ outcome[t] = "ok") =>
              /\ died = ExcOf(t)
              /\ \A g \in victims : pc[g] \in {"dead", "kill_wait"}
              /\ \A c \in Callers : WaitEnded(c) => outcome[c] = ExcOf(t)

\* C8 witness: a managed thread raised, its kill cancelled another managed
\* thread and fired _died, and a wait() raised the thread's exception
C8_Witness ==
    \E t \in Managed :
        /\ exitmode[t] = "raised" /\ t \in eff /\ KillEnded(t) /\ outcome[t] = "ok"
        /\ \E g \in victims : exitmode[g] = "kill_kill_active"
        /\ \E c \in Callers : WaitEnded(c) /\ outcome[c] = ExcOf(t)

(***************************************************************************)
(* Properties of the worker pool                                           *)
(***************************************************************************)
\* the workers that are in _run_worker
MidExecution == {w \in Workers : pc[w] \in WorkerSteps}

\* C9: never more than max_workers workers are in _run_worker at once
C9_PoolBound ==
    /\ Cardinality(MidExecution) <= max_workers
    /\ MidExecution = worker_pool

\* C9 witness: the pool is full and a further spawn_worker call is suspended
C9_Witness ==
    /\ Cardinality(MidExecution) = max_workers
    /\ \E w \in Workers : pc[w] = "spawn_wait"

\* C10: a spawn_worker call is suspended only when the pool is full; while it
\* is suspended its worker has not started; and once a slot is free the call
\* proceeds and its worker is started
C10_SaturatedSpawn ==
    /\ [][\A w \in Workers : (pc[w] # "spawn_wait" /\ pc'[w] = "spawn_wait")
                                => Running = max_workers]_vars
    /\ [](\A w \in Workers : pc[w] = "spawn_wait"
                                => (w \notin worker_pool /\ w \notin active_threads
                                    /\ wlog[w] = <<>>))
    /\ \A w \in Workers : (pc[w] = "spawn_wait" /\ Running < max_workers) ~> (w \in worker_pool)

\* C10 witness: a worker whose spawn_worker call was suspended has run to its
\* end after the worker that held the slot finished
C10_Witness ==
    \E w \in suspended : exitmode[w] = "ok" /\ Len(wlog[w]) = 7

(***************************************************************************)
(* Properties of a worker's run                                            *)
(***************************************************************************)
\* sequence s is a prefix of sequence t
IsPrefix(s, t) == Len(s) <= Len(t) /\ \A i \in 1..Len(s) : s[i] = t[i]

\* C11: the steps a worker has completed are a prefix of inject, worker_setup,
\* the service method, worker_result, worker_teardown, release, handle_result;
\* a worker that has not run yet has done none, a worker in the service method
\* has done exactly inject and worker_setup, a worker in handle_result has done
\* all the hooks, and a worker that returned has done them all, with
\* handle_result last when it was supplied
C11_WorkerStepOrder ==
    \A w \in Workers :
        /\ \E m \in {"method:result", "method:exc"} :
              IsPrefix(wlog[w], <<"inject", "worker_setup", m, "worker_result",
                                  "worker_teardown", "release", "handle_result">>)
        /\ pc[w] = "inject" => Len(wlog[w]) = 0
        /\ pc[w] = "method" => Len(wlog[w]) = 2
        /\ pc[w] = "handle_result" => Len(wlog[w]) = 6
        /\ exitmode[w] = "ok" => Len(wlog[w]) \in {6, 7}

\* C11 witness: a worker has returned after all seven steps, in order
C11_Witness ==
    \E w \in Workers :
        /\ exitmode[w] = "ok"
        /\ wlog[w] = <<"inject", "worker_setup", "method:result", "worker_result",
                       "worker_teardown", "release", "handle_result">>

\* the service method of worker w has raised
MethodRaised(w) == Len(wlog[w]) >= 3 /\ wlog[w][3] = "method:exc"

\* C12: when the service method raises, the step leaves the worker in the pool
\* and _died and _being_killed as they were; worker_result has received
\* result None and the method's exception, worker_teardown and release have
\* run; and a worker that returned after that passed the same to handle_result
\* when one was supplied and has called no kill
C12_MethodExceptionCaptured ==
    /\ [][\A w \in Workers : (~MethodRaised(w) /\ MethodRaised(w)')
              => (w \in worker_pool' /\ died' = died /\ being_killed' = being_killed)]_vars
    /\ [](\A w \in Workers : MethodRaised(w) =>
              /\ Len(wlog[w]) >= 6
              /\ wlog[w][4] = "worker_result" /\ wres[w].worker_result = <<"None", "egg_error">>
              /\ wlog[w][5] = "worker_teardown" /\ wlog[w][6] = "release"
              /\ exitmode[w] = "ok" =>
                    /\ op[w] = "none"
                    /\ Len(wlog[w]) = 7 => wres[w].handle_result = <<"None", "egg_error">>)

\* C12 witness: a worker whose method raised has returned after handle_result,
\* and the container has not died and is not being killed
C12_Witness ==
    \E w \in Workers :
        /\ MethodRaised(w) /\ exitmode[w] = "ok" /\ Len(wlog[w]) = 7
        /\ wres[w].handle_result = <<"None", "egg_error">>
        /\ died = "unfired" /\ ~being_killed

\* a lifecycle hook of worker w raises in this step: the worker was in its
\* setup hooks or past the service method in its teardown hooks
HookRaises(w) ==
    pc[w] \in {"inject", "method"} /\ exitmode[w] = "none" /\ exitmode'[w] = "raised"

\* C13 as stated: whenever a lifecycle hook raises in a worker while the
\* container has not died, the kill its exit handler calls is the one that
\* kills the container
C13_HookErrorKills ==
    [][\A w \in Workers : (HookRaises(w) /\ ~Ready) => w \in eff']_vars

\* C13: an exception raised by a lifecycle hook leaves the worker, which leaves
\* the pool and the registry, and its exit handler calls kill with it; that
\* kill performs the shutdown when no kill had begun and _died had not fired,
\* and only then; and when that kill has fired _died, _died holds the
\* exception and a wait() that has ended raised it
C13_HookErrorPropagates ==
    /\ [][\A w \in Workers : HookRaises(w) =>
              /\ w \notin worker_pool' /\ w \notin active_threads'
              /\ op'[w] = "kill"
              /\ (w \in eff') <=> (~being_killed /\ ~Ready)
              /\ w \in eff' => (exc'[w] = ExcOf(w) /\ first_kill' = ExcOf(w))]_vars
    /\ [](\A w \in Workers :
              (exitmode[w] = "raised" /\ w \in eff /\ KillEnded(w) /\ outcome[w] = "ok") =>
                  /\ died = ExcOf(w)
                  /\ \A c \in Callers : WaitEnded(c) => outcome[c] = ExcOf(w))

\* C13 witness: a worker has raised, its kill shut the container down and
\* fired _died with the worker's exception, and a wait() suspended meanwhile
\* raised it
C13_Witness ==
    \E w \in Workers :
        /\ exitmode[w] = "raised" /\ w \in eff /\ KillEnded(w) /\ outcome[w] = "ok"
        /\ died = ExcOf(w)
        /\ \E c \in Callers : WaitEnded(c) /\ waited[c] /\ outcome[c] = ExcOf(w)

(***************************************************************************)
(* Properties of the exit handler                                          *)
(***************************************************************************)
\* managed thread g ends in this step without an exception of its own: it is
\* cancelled (GreenletExit) or it returns
EndsQuietly(g) ==
    /\ exitmode[g] = "none"
    /\ exitmode'[g] \notin {"none", "raised"}

\* C14: the step in which a managed thread or worker is cancelled, or returns,
\* removes it from both registries and from the pool, calls no kill and leaves
\* _died, _being_killed and started as they were; and such a thread never
\* calls kill or performs a shutdown
C14_CancelledThreadIgnored ==
    /\ [][\A g \in Managed : EndsQuietly(g) =>
              /\ g \notin active_threads' /\ g \notin protected_threads'
              /\ g \notin worker_pool'
              /\ pc'[g] = "dead" /\ op'[g] = op[g] /\ eff' = eff
              /\ being_killed' = being_killed /\ started' = started
              /\ died' = died /\ died_sends' = died_sends]_vars
    /\ [](\A g \in Managed : exitmode[g] \notin {"none", "raised"} =>
              (g \notin eff /\ op[g] = "none" /\ pc[g] = "dead"))

\* C14 witness: a managed thread was cancelled from outside, and the container
\* went on: it has not died, is not being killed, and a worker spawned after
\* the cancellation has run to its end
C14_Witness ==
    \E t \in Threads : \E w \in Workers :
        /\ exitmode[t] = "killed"
        /\ exitmode[w] = "ok" /\ Len(wlog[w]) \in {6, 7}
        /\ died = "unfired" /\ ~being_killed
        /\ active_threads = {} /\ protected_threads = {}

(***************************************************************************)
(* Properties of the shutdown sequences                                    *)
(***************************************************************************)
\* managed thread g is cancelled in this step by the kill loop named `loop`
CancelledBy(g, loop) == exitmode[g] = "none" /\ exitmode'[g] = loop

\* the kill hook of dependency d is invoked in this step
KillInvoked(d) == calls'[d]["kill"] > calls[d]["kill"]

\* every thread that was active when the effective kill began has ended, or
\* waits in its own exit handler
VictimsGone == \A g \in victims : pc[g] \in {"dead", "kill_wait"}

ListDone(c) == \A g \in todo[c] : ~Alive(g)

\* every nested dependency's stop has been invoked once this step is done
NestedStopped == \A n \in Nested : calls'[n]["stop"] >= 1

\* C16: nested dependencies are stopped only after the injections; a stop()
\* cancels an active managed thread only when the nested dependencies were
\* stopped; it cancels a protected thread only after that and when no active
\* thread of its list is left; and it fires _died with success only after all
\* this, when no thread it has to cancel is left
C16_StopOrder ==
    /\ [](\A n \in Nested : \A i \in Injections : calls[n]["stop"] <= calls[i]["stop"])
    /\ [][\A g \in Managed : CancelledBy(g, "stop_kill_active") =>
              /\ NestedStopped
              /\ died' = died
              /\ \E c \in Callers : /\ pc[c] \in {"stop_nested", "stop_kill_active"}
                                     /\ pc'[c] = "stop_kill_active"]_vars
    /\ [][\A g \in Managed : CancelledBy(g, "stop_kill_protected") =>
              /\ NestedStopped
              /\ died' = died
              /\ \E c \in Callers :
                    /\ pc'[c] = "stop_kill_protected"
                    /\ pc[c] \in {"stop_nested", "stop_kill_active", "stop_kill_protected"}
                    /\ pc[c] = "stop_nested" => active_threads = {}
                    /\ pc[c] = "stop_kill_active" => ListDone(c)]_vars
    /\ [][(died = "unfired" /\ died' = "ok") =>
              \E c \in Callers :
                    /\ op[c] = "stop" /\ pc'[c] = "idle" /\ outcome'[c] = "ok"
                    /\ pc[c] \in {"stop_nested", "stop_kill_active", "stop_kill_protected"}
                    /\ NestedStopped
                    /\ ListDone(c)
                    /\ pc[c] = "stop_nested" => active_threads = {}
                    /\ pc[c] # "stop_kill_protected" => protected_threads = {}]_vars

\* C16 witness: a stop() has stopped the nested dependency, cancelled an
\* active thread in its first loop and a protected thread in its second, and
\* has fired _died with success
C16_Witness ==
    \E c \in Callers : \E a \in Managed : \E b \in Managed :
        /\ exitmode[a] = "stop_kill_active" /\ exitmode[b] = "stop_kill_protected"
        /\ op[c] = "stop" /\ pc[c] = "idle" /\ outcome[c] = "ok" /\ died = "ok"
        /\ \A n \in Nested : calls[n]["stop"] = 1

(***************************************************************************)
(* Properties of the lifecycle hooks                                       *)
(***************************************************************************)
\* the places a stop() that found _died unfired can be suspended at, in order
StopStages == <<"stop_entrypoints", "stop_waitall", "stop_injections", "stop_nested",
                "stop_kill_active", "stop_kill_protected">>

\* the stop() calls in progress that have got past stage number n
StopsPast(n) == {c \in Callers : \E i \in (n + 1)..Len(StopStages) : pc[c] = StopStages[i]}

\* the kill(exc) calls that performed the shutdown and have sent _died
KillsSent ==
    {k \in eff : IF k \in Callers
                 THEN pc[k] \notin {"kill_entrypoints", "kill_kill_active",
                                    "kill_dependencies", "kill_kill_protected"}
                 ELSE pc[k] = "dead" /\ outcome[k] # "GreenletExit"}

\* the stop() calls that found _died unfired and have run to their end: every
\* one of them has sent _died
StopsEnded == died_sends - Cardinality(KillsSent)

\* C17: each stop() that finds _died unfired invokes stop exactly once on every
\* dependency: at any time an entrypoint's stop has been invoked once per
\* stop() that has ended or is past the entrypoint step, an injection's once
\* per stop() that has ended or is past the injection step, a nested
\* dependency's once per stop() that has ended or is past the nested step;
\* and no step of a stop() invokes any other lifecycle hook
C17_StopHooksOnce ==
    /\ [](\A d \in Deps :
              calls[d]["stop"] = StopsEnded + Cardinality(StopsPast(
                  IF d \in Entrypoints THEN 1 ELSE IF d \in Injections THEN 3 ELSE 4)))
    /\ [][\A c \in Callers : (c \in StopsPast(0) /\ pc'[c] # pc[c]) =>
              \A d \in Deps : \A h \in LifecycleHooks \ {"stop"} :
                  calls'[d][h] = calls[d][h]]_vars

\* C17 witness: stop() was the only call made on a fresh container, it has
\* ended, and every dependency has had stop invoked once and no other hook
C17_Witness ==
    /\ ncalls = 1 /\ died = "ok"
    /\ \E c \in Callers : op[c] = "stop" /\ pc[c] = "idle" /\ outcome[c] = "ok"
    /\ \A d \in Deps : \A h \in LifecycleHooks :
           calls[d][h] = IF h = "stop" THEN 1 ELSE 0

\* the start() calls that have prepared the dependencies and not yet started them
Starting == {c \in Callers : pc[c] = "start_start"}

\* hook h of dependency d is invoked n times in this step
Invoked(d, h, n) == calls'[d][h] = calls[d][h] + n

\* C18: a start() call goes through the prepare step and then the start step,
\* once each; its prepare step invokes prepare once on every dependency and no
\* start, its start step invokes start once on every dependency and no
\* prepare, and no other step invokes either; so no dependency has been
\* started more often than any dependency has been prepared, the difference
\* being the start() calls that are between the two steps
C18_StartHooksOnce ==
    /\ [][\A c \in Callers :
              /\ pc[c] = "start_prepare" => pc'[c] \in {"start_prepare", "start_start"}
              /\ pc[c] = "start_start" => pc'[c] \in {"start_start", "idle"}
              /\ (pc[c] # "start_prepare" /\ pc'[c] = "start_prepare") => pc[c] = "idle"
              /\ (pc[c] # "start_start" /\ pc'[c] = "start_start") => pc[c] = "start_prepare"]_vars
    /\ [][IF \E c \in Callers : pc[c] = "start_prepare" /\ pc'[c] = "start_start"
           THEN \A d \in Deps : Invoked(d, "prepare", 1) /\ Invoked(d, "start", 0)
           ELSE IF \E c \in Callers : pc[c] = "start_start" /\ pc'[c] = "idle"
           THEN \A d \in Deps : Invoked(d, "prepare", 0) /\ Invoked(d, "start", 1)
           ELSE \A d \in Deps : Invoked(d, "prepare", 0) /\ Invoked(d, "start", 0)]_vars
    /\ [](\A d \in Deps : \A e \in Deps :
              calls[d]["prepare"] = calls[e]["start"] + Cardinality(Starting))

\* C18 witness: start() was the only call made, it has returned, and every
\* dependency has had prepare invoked once and start invoked once
C18_Witness ==
    /\ ncalls = 1 /\ started
    /\ \E c \in Callers : op[c] = "start" /\ pc[c] = "idle" /\ outcome[c] = "ok"
    /\ \A d \in Deps : calls[d]["prepare"] = 1 /\ calls[d]["start"] = 1
    /\ \A d \in Deps : calls[d]["stop"] = 0 /\ calls[d]["kill"] = 0

\* ---------------------------------------------------------------------------
\* Properties of the container's lifecycle
\* ---------------------------------------------------------------------------

\* C19: once the died signal has fired it keeps its value and no step sets
\* started again: Dead is terminal
C19_DeadIsTerminal ==
    [][Ready => (died' = died /\ (started' => started))]_vars

\* ---------------------------------------------------------------------------
\* Properties of the worker context
\* ---------------------------------------------------------------------------

\* C20: a constructed worker context's call_id_stack has at most
\* parent_calls_tracked + 1 entries, whatever the parent stack and the
\* configured non-negative parent_calls_tracked
C20_StackLength ==
    ctx_pc = "done" =>
        Len(worker_ctx.call_id_stack) <= worker_ctx.parent_calls_tracked + 1

\* the dict the worker context was constructed with ({} when data was None)
GivenData == IF ctx_args.data = {} THEN EmptyDict ELSE CHOOSE d \in ctx_args.data : TRUE

\* the last k elements of the sequence S
LastOf(S, k) == [i \in 1..k |-> S[Len(S) - k + i]]

\* C21: a worker context constructed with data holding call_id_stack = S has
\* parent_call_stack = S, no call_id_stack key left in data, call_id_stack =
\* the last min(len(S), parent_calls_tracked) elements of S followed by the
\* call id "service_name.method_name.unique_id", and immediate_parent_call_id
\* the last element of S, or None when S is empty
C21_ContextFields ==
    (ctx_pc = "done" /\ WORKER_CALL_ID_STACK_KEY \in DOMAIN GivenData) =>
        LET S == GivenData[WORKER_CALL_ID_STACK_KEY]
            tracked == worker_ctx.parent_calls_tracked
            k == IF Len(S) < tracked THEN Len(S) ELSE tracked
            new_id == service_name \o "." \o ctx_args.method_name \o "." \o worker_ctx.unique_id
        IN  /\ worker_ctx.parent_call_stack = S
            /\ WORKER_CALL_ID_STACK_KEY \notin DOMAIN worker_ctx.data
            /\ worker_ctx.call_id_stack = LastOf(S, k) \o <<new_id>>
            /\ worker_ctx.immediate_parent_call_id =
                   IF S = <<>> THEN "None" ELSE S[Len(S)]

\* ---------------------------------------------------------------------------
\* Properties of RPC calls
\* ---------------------------------------------------------------------------

\* the workers spawned for the request that worker i's proxy published
CalleesOf(i) ==
    {j \in 1..Len(rworkers) :
        rworkers[i].cid # 0 /\ rworkers[j].message.correlation_id = rworkers[i].cid}

\* the workers spawned by entrypoint_hook
HookWorkers == {i \in 1..Len(rworkers) : rworkers[i].message = NoMessage}

\* C22: the worker spawned for a proxied call is constructed with the calling
\* worker's call_id_stack as its parent stack; down the chain the stacks seen
\* at construction are None for the grandparent's worker, [grandparent id]
\* for the parent's and [grandparent id, parent id] for the child's; and the
\* hook call on the grandparent returns what the child's method returned
C22_CallChain ==
    /\ Len(stack_request) = Len(rworkers)
    /\ \A g \in HookWorkers :
           /\ stack_request[g] = {}
           /\ \A p \in CalleesOf(g) :
                  /\ stack_request[p] = {rworkers[g].ctx.call_id_stack}
                  /\ rworkers[p].ctx.parent_call_stack = rworkers[g].ctx.call_id_stack
                  /\ stack_request[p] = {<<rworkers[g].ctx.call_id>>}
                  /\ \A c \in CalleesOf(p) :
                         /\ stack_request[c] = {rworkers[p].ctx.call_id_stack}
                         /\ rworkers[c].ctx.parent_call_stack = rworkers[p].ctx.call_id_stack
                         /\ stack_request[c] =
                                {<<rworkers[g].ctx.call_id, rworkers[p].ctx.call_id>>}
                         /\ \A k \in 1..Len(hook_results) :
                                (/\ hook_results[k].call_id = rworkers[g].ctx.call_id
                                 /\ rworkers[c].exc = NoExc)
                                    => /\ hook_results[k].exc = NoExc
                                       /\ hook_results[k].result = rworkers[c].result

\* C22 witness: one call of grandparent_do went down to the child and came
\* back: the stacks seen and the value returned are those of test_call_id_stack
C22_Witness ==
    /\ stack_request = << {}, {<<"grandparent.grandparent_do.0">>},
                          {<<"grandparent.grandparent_do.0", "parent.parent_do.1">>} >>
    /\ Len(rworkers) = 3 /\ rworkers[3].svc = "child" /\ rworkers[3].result = "1"
    /\ hook_results = <<[call_id |-> "grandparent.grandparent_do.0", result |-> "1",
                         exc |-> NoExc]>>

\* the proxied call of worker i has returned or raised
Resumed(i) ==
    /\ rworkers[i].cid # 0
    /\ rworkers[i].result # "None" \/ rworkers[i].exc # NoExc

\* where the reply to request c has to go: the reply listener of the service
\* whose worker made the call, or the client outside
ReplyToOf(c) ==
    IF \E i \in 1..Len(rworkers) : rworkers[i].cid = c
    THEN ReplyRoutingKey(rworkers[CHOOSE i \in 1..Len(rworkers) : rworkers[i].cid = c].svc)
    ELSE "client"

\* C23: a proxied call that has ended returned the value the remote method
\* returned, or raised the RemoteError of the exception it raised; every reply
\* published for a request carries that request's correlation id and is routed
\* to its reply_to; and a caller's reply event is only ever sent the body of a
\* reply published for its own request
C23_OwnReply ==
    /\ \A i \in 1..Len(rworkers) : Resumed(i) =>
           /\ CalleesOf(i) # {}
           /\ \A j \in CalleesOf(i) :
                  IF rworkers[j].exc = NoExc
                  THEN rworkers[i].result = rworkers[j].result /\ rworkers[i].exc = NoExc
                  ELSE /\ rworkers[i].result = "None"
                       /\ rworkers[i].exc.exc_type = "RemoteError"
                       /\ rworkers[i].exc.value =
                              rworkers[j].exc.exc_type \o " " \o rworkers[j].exc.value
    /\ \A c \in Cids : \A k \in 1..Len(replies[c]) :
           /\ replies[c][k].correlation_id = c
           /\ replies[c][k].routing_key = ReplyToOf(c)
    /\ \A c \in Cids : \A k \in 1..Len(events[c]) :
           \E n \in 1..Len(replies[c]) : events[c][k] = replies[c][n].body

\* C23 witness: two calls of one service are outstanding and the replies to
\* both have come, one with a result and one with an error; the first caller
\* has been resumed with its own
C23_Witness ==
    \E i, j \in 1..Len(rworkers) :
        /\ i # j /\ rworkers[i].svc = rworkers[j].svc
        /\ Resumed(i) /\ rworkers[i].pc = "result" /\ rworkers[i].exc # NoExc
        /\ rworkers[j].pc = "reply_wait" /\ events[rworkers[j].cid] # <<>>
        /\ events[rworkers[j].cid][1].error = NoExc

\* C24: a correlation id a proxy registered is resolved at most once, and an
\* entry the listener has not resolved is gone from the reply-event map once
\* the container has died
C24_NoEntryAfterDeath ==
    /\ \A c \in Cids : Len(events[c]) <= 1
    /\ \A s \in RpcServices : Ended(s) => reply_events[s] = {}

\* the requests that were delivered and matched no registered provider
NoProvider(j) == unrouted[j].message

\* C25: a request whose routing key matches no registered provider spawns no
\* worker; the reply published for it goes to its reply_to with its correlation
\* id and has the MethodNotFound error of the method name, and the request is
\* acknowledged after that reply, once
C25_MethodNotFound ==
    /\ \A i \in 1..Len(rworkers) : rworkers[i].message # NoMessage =>
           /\ rworkers[i].message.routing_key = rworkers[i].svc \o "." \o rworkers[i].method
           /\ \A j \in 1..Len(unrouted) : rworkers[i].message # NoProvider(j)
    /\ \A j \in 1..Len(unrouted) :
           LET message == NoProvider(j)
               c == message.correlation_id
               reply == [kind |-> "reply", routing_key |-> message.reply_to,
                         reply_to |-> "", correlation_id |-> c, headers |-> EmptyDict,
                         body |-> [result |-> "None",
                                   error |-> [exc_type |-> "MethodNotFound",
                                              value |-> "missing"]]]
           IN  /\ message.routing_key = unrouted[j].svc \o ".missing"
               /\ unrouted[j].pc \in {"respond", "failed"} =>
                      replies[c] = <<>> /\ acks[c] = 0
               /\ unrouted[j].pc = "ack" =>
                      replies[c] = <<reply>> /\ acks[c] = 0
               /\ unrouted[j].pc = "done" =>
                      replies[c] = <<reply>> /\ acks[c] = 1 /\ rlog[c] = <<"reply", "ack">>

\* C25 witness: a request for child.missing was answered to the client with
\* MethodNotFound and acknowledged, and no worker was spawned
C25_Witness ==
    /\ rworkers = <<>>
    /\ \E j \in 1..Len(unrouted) :
           /\ unrouted[j].pc = "done"
           /\ \E r \in broker : /\ r.kind = "reply" /\ r.routing_key = "client"
                                /\ r.correlation_id = NoProvider(j).correlation_id
                                /\ r.body.error.exc_type = "MethodNotFound"

\* the requests whose reply could not be published
PublishFailed ==
    {rworkers[i].message : i \in {k \in 1..Len(rworkers) :
         rworkers[k].pc = "failed" /\ rworkers[k].message # NoMessage}}
    \cup {unrouted[j].message : j \in {k \in 1..Len(unrouted) : unrouted[k].pc = "failed"}}

\* C26: a request is acknowledged at most once and only after its one reply
\* was published, whether the reply holds a result, a user error or
\* MethodNotFound; a request whose reply could not be published is not
\* acknowledged
C26_AckAfterReply ==
    /\ \A c \in Cids :
           /\ acks[c] <= 1
           /\ rlog[c] \in {<<>>, <<"reply">>, <<"reply", "ack">>}
           /\ acks[c] = 1 => Len(replies[c]) = 1
    /\ \A message \in PublishFailed :
           /\ acks[message.correlation_id] = 0
           /\ rlog[message.correlation_id] = <<>>

\* C26 witness: one request was answered with a user error and acknowledged,
\* and the publish of the reply to another has failed
C26_Witness ==
    /\ PublishFailed # {}
    /\ \E c \in Cids : /\ rlog[c] = <<"reply", "ack">>
                       /\ replies[c][1].body.error # NoExc

\* every provider registered with the consumer of s has called unregister_provider
AllRequested(s) == RpcMethods[s] \subseteq unregistering[s]

\* C27: the consumer is unregistered from the queue consumer only when every
\* registered provider has called unregister_provider; a call returns only
\* after that unregistration has completed; and once the last provider has
\* called, every call ends unless the container is killed meanwhile
C27_UnregisterTogether ==
    /\ [](\A s \in RpcServices :
             /\ (unregistered[s] > 0 \/ \E m \in RpcMethods[s] : ppc[s][m] = "unregister")
                    => AllRequested(s)
             /\ (~Ended(s) /\ RpcQueue(s) \notin consuming[s])
                    => unregistered[s] >= 1
             /\ \A m \in RpcMethods[s] : ppc[s][m] = "stopped" =>
                    /\ unregistered[s] >= 1
                    /\ RpcQueue(s) \notin consuming[s]
                    /\ m \notin rpc_providers[s])
    /\ \A s \in RpcServices :
           AllRequested(s) ~>
               (Ended(s) \/ \A m \in RpcMethods[s] : ppc[s][m] \in {"stopped", "raised"})

\* C27 witness: both providers of child have unregistered; the first to call
\* had to wait for the second
C27_Witness ==
    /\ svc_state["child"] = "stopping"
    /\ \A m \in RpcMethods["child"] : ppc["child"][m] = "stopped"
    /\ unregistered["child"] = 1

\* s is handed a reply in this step: a reply routed to its listener leaves
\* the broker
Delivered(s, message) ==
    /\ message \in broker /\ message \notin broker'
    /\ message.kind = "reply" /\ message.routing_key = ReplyRoutingKey(s)

\* C28: a reply whose correlation id is not in the reply-event map, because
\* it was never registered or because an earlier reply with the id resolved
\* it, is acknowledged and dropped: the map and the events stay as they are, no
\* event is sent a second body, and no worker or container fails
C28_UnknownReplyDropped ==
    [][/\ \A c \in Cids : Len(events'[c]) <= 1
       /\ \A s \in RpcServices : \A message \in broker :
              (Delivered(s, message) /\ message.correlation_id \notin reply_events[s]) =>
                  /\ reply_events' = reply_events /\ events' = events
                  /\ rworkers' = rworkers /\ svc_state' = svc_state
                  /\ unknown'[s] = unknown[s] \cup {message.correlation_id}]_vars

\* C28 witness: the listener of a service has dropped a second reply with an
\* id it had resolved before, and the caller has the first reply
C28_Witness ==
    \E i \in 1..Len(rworkers) :
        /\ rworkers[i].cid # 0
        /\ rworkers[i].cid \in unknown[rworkers[i].svc]
        /\ Len(events[rworkers[i].cid]) = 1
        /\ rworkers[i].pc # "reply_wait"
        /\ rworkers[i].result = "1"

\* a reply with an id no proxy registered has been dropped
C28_NeverRegistered == \E s \in RpcServices : 0 \in unknown[s]

\* the keys of the allowed set
AllowedKeys == {"language", "user_id", "auth_token"}

\* C29: context_data of a worker holds exactly the items of the data it was
\* given whose keys are language, user_id or auth_token, and call_id_stack
\* bound to the worker's own call_id_stack; sent as headers and unpacked by
\* the receiving entrypoint, the context data, and with it the call_id_stack,
\* arrives unchanged
C29_ContextData ==
    /\ \A data \in context_read :
           /\ DOMAIN data = (DOMAIN GivenData \cap AllowedKeys) \cup {"call_id_stack"}
           /\ \A k \in DOMAIN GivenData \cap AllowedKeys : data[k] = GivenData[k]
           /\ data["call_id_stack"] = worker_ctx.call_id_stack
    /\ \A data \in data_received :
           /\ "call_id_stack" \in DOMAIN data
           /\ data["call_id_stack"] = worker_ctx.call_id_stack
           /\ DOMAIN data = (DOMAIN GivenData \cap AllowedKeys) \cup {"call_id_stack"}
           /\ \A k \in DOMAIN GivenData \cap AllowedKeys : data[k] = GivenData[k]

\* C29 witness: a worker given a parent stack, an allowed entry and another
\* one has had its context_data read and its headers received
C29_Witness ==
    /\ {"call_id_stack", "auth_token", "secret"} \subseteq DOMAIN GivenData
    /\ GivenData["call_id_stack"] # <<>>
    /\ context_read # {} /\ data_received # {}
    /\ \A h \in headers_sent : "nameko.call_id_stack" \in DOMAIN h

\* the correlation ids of the requests proxies have published, with the
\* service of the calling worker
Published == {<<rworkers[i].svc, rworkers[i].cid>> : i \in {k \in 1..Len(rworkers) : rworkers[k].cid # 0}}

\* C30: from the publish of a request on, its correlation id is in the map of
\* the calling service's listener until a reply resolves it, so the first
\* reply to the request is never dropped as unknown, whenever it arrives
C30_RegisteredBeforePublish ==
    /\ \A p \in Published :
           /\ events[p[2]] = <<>> => p[2] \in reply_events[p[1]]
           /\ p[2] \in unknown[p[1]] => events[p[2]] # <<>>
    /\ \A message \in broker :
           (message.kind = "request" /\ message.reply_to # "client") =>
               \E p \in Published : /\ p[2] = message.correlation_id
                                    /\ message.reply_to = ReplyRoutingKey(p[1])

\* C30 witness: the reply to a proxied call has reached the listener before
\* the caller was resumed and has found the caller's event
C30_Witness ==
    \E i \in 1..Len(rworkers) :
        /\ rworkers[i].cid # 0 /\ rworkers[i].pc = "reply_wait"
        /\ events[rworkers[i].cid] # <<>>
        /\ rworkers[i].cid \notin reply_events[rworkers[i].svc]
        /\ unknown[rworkers[i].svc] = {}

\* ---------------------------------------------------------------------------
\* Properties of the thread registries
\* ---------------------------------------------------------------------------

\* the managed thread g has been spawned and its exit handler has not run
Runs(g) == IF g \in Workers THEN g \in worker_pool ELSE pc[g] = "running"

\* C31: _active_threads and _protected_threads are disjoint; a running worker
\* is in _active_threads, a running thread of spawn_managed_thread is in the
\* registry its `protected` argument chose and not in the other, and a thread
\* that does not run (not spawned yet, or its exit handler has run) is in neither
C31_RegistriesDisjoint ==
    /\ active_threads \cap protected_threads = {}
    /\ \A w \in Workers : Runs(w) => w \in active_threads /\ w \notin protected_threads
    /\ \A t \in Threads : Runs(t) =>
           \/ registry[t] = "active" /\ t \in active_threads /\ t \notin protected_threads
           \/ registry[t] = "protected" /\ t \in protected_threads /\ t \notin active_threads
    /\ \A g \in Managed : ~Runs(g) => g \notin active_threads \cup protected_threads

\* C31 witness: a protected thread and a worker run, each in its registry, and
\* a thread spawned unprotected has ended and is in neither
C31_Witness ==
    /\ \E t \in Threads : Runs(t) /\ registry[t] = "protected" /\ protected_threads = {t}
    /\ \E w \in Workers : Runs(w) /\ active_threads = {w}
    /\ \E t \in Threads : registry[t] = "active" /\ pc[t] = "dead"

\* C32: across a shutdown the consumer of a service is unregistered from the
\* queue consumer once and its event sent once: when providers registered, by
\* the unregister_provider call of the last of them, and the consumer's own
\* stop() at the end of the container's stop() changes nothing; when none
\* registered, by that stop(); the event is never sent twice
C32_UnregisteredOnce ==
    /\ [](\A s \in RpcServices :
             /\ unregistered[s] <= 1
             /\ svc_state[s] = "stopped" =>
                    unregistered[s] = 1 /\ RpcQueue(s) \notin consuming[s]
             /\ (~providers_registered(s) /\ unregistered[s] = 1) => svc_state[s] = "stopped"
             /\ (providers_registered(s) /\ unregistered[s] = 1) => AllRequested(s))
    /\ [][\A s \in RpcServices :
             (svc_state[s] = "stopping" /\ svc_state'[s] = "stopped") =>
                 IF providers_registered(s)
                 THEN /\ unregistered[s] = 1 /\ unregistered'[s] = 1
                      /\ RpcQueue(s) \notin consuming[s]
                 ELSE /\ unregistered[s] = 0 /\ unregistered'[s] = 1
                      /\ RpcQueue(s) \in consuming[s]]_vars

\* stop() called by c is in progress
Stopping(c) ==
    op[c] = "stop" /\ pc[c] \in {"stop_entrypoints", "stop_waitall", "stop_injections",
                                "stop_nested", "stop_kill_active", "stop_kill_protected"}

\* C33: a stop() in progress ends and _died is fired, when every worker goes
\* on to its end and every stop hook returns; and as long as a worker that was
\* running when stop() was called has not finished, that stop() has not gone
\* past waitall(): it has stopped no injection and has not fired _died
C33_StopTerminates ==
    /\ \A c \in Callers : Stopping(c) ~> (~Stopping(c) /\ Ready)
    /\ [](\A c \in Callers :
             (op[c] = "stop" /\ inflight[c] \cap worker_pool # {}) =>
                 /\ pc[c] \in {"stop_entrypoints", "stop_waitall"}
                 /\ outcome[c] = "none")
    /\ [][\A c \in Callers :
             (Stopping(c) /\ inflight[c] \cap worker_pool # {}) =>
                 /\ pc'[c] \in {"stop_entrypoints", "stop_waitall"}
                 /\ (died' # died \/ died_sends' # died_sends \/ InjectionStopInvoked)
                        => \E k \in Tasks \ {c} : pc'[k] # pc[k]]_vars

\* C33 witness: a stop() called while a worker was running has waited for it,
\* has ended normally, and _died is fired with no exception
C33_Witness ==
    \E c \in Callers :
        /\ op[c] = "stop" /\ pc[c] = "idle" /\ ~late[c] /\ outcome[c] = "ok"
        /\ inflight[c] # {} /\ \A w \in inflight[c] : exitmode[w] = "ok"
        /\ died = "ok" /\ died_sends = 1

\* C34: in the step that fires _died, made by a stop() or by a kill(exc),
\* both managed-thread registries are left empty
C34_RegistriesEmptyAtDeath ==
    [][(died = "unfired" /\ died' # "unfired")
           => (active_threads' = {} /\ protected_threads' = {})]_vars

\* C35: when a hook raises in a worker, before or after the method, the
\* worker ends without handle_result: its step publishes no reply,
\* acknowledges nothing and hands no result to the caller of a hook, and no
\* reply or acknowledgement for its request exists afterwards
C35_HookErrorNoReply ==
    /\ [](\A i \in 1..Len(rworkers) :
             rworkers[i].pc = "failed" =>
                 IF rworkers[i].message # NoMessage
                 THEN /\ rlog[rworkers[i].message.correlation_id] = <<>>
                      /\ replies[rworkers[i].message.correlation_id] = <<>>
                      /\ acks[rworkers[i].message.correlation_id] = 0
                 ELSE \A j \in 1..Len(hook_results) :
                          hook_results[j].call_id # rworkers[i].ctx.call_id)
    /\ [][\A i \in 1..Len(rworkers) :
             (rworkers[i].pc \in {"method", "result"} /\ rworkers'[i].pc = "failed")
                 => UNCHANGED <<broker, replies, acks, rlog, hook_results>>]_vars

\* C35 witness: the worker of a request has failed in a hook before its method
\* returned, its container is dead, and the caller's reply event is unresolved
C35_Witness ==
    \E i \in 1..Len(rworkers) :
        /\ rworkers[i].pc = "failed" /\ rworkers[i].message # NoMessage
        /\ rworkers[i].result = "None" /\ rworkers[i].exc = NoExc
        /\ svc_state[rworkers[i].svc] = "dead"
        /\ acks[rworkers[i].message.correlation_id] = 0

\* the request is taken from the broker in this step
Dispatched(message) ==
    message \in broker /\ message.kind = "request" /\ message \notin broker'

\* C36: as long as the consumer of a service is registered with the queue
\* consumer every provider of the service is in the routing table, also one
\* that has asked to be unregistered; a request for the method of such a
\* provider is given to a worker of that method and not answered with
\* MethodNotFound; and a provider leaves the table only once the consumer has
\* been unregistered
C36_RoutableUntilUnregistered ==
    /\ [](\A s \in RpcServices :
             RpcQueue(s) \in consuming[s] => rpc_providers[s] = RpcMethods[s])
    /\ [][\A message \in broker :
             (/\ Dispatched(message)
              /\ MethodOf(message.routing_key) \in unregistering[RoutedTo(message.routing_key)]) =>
                 /\ unrouted' = unrouted
                 /\ Len(rworkers') = Len(rworkers) + 1
                 /\ rworkers'[Len(rworkers')].svc = RoutedTo(message.routing_key)
                 /\ rworkers'[Len(rworkers')].method = MethodOf(message.routing_key)
                 /\ rworkers'[Len(rworkers')].message = message]_vars
    /\ [][\A s \in RpcServices :
             rpc_providers'[s] # rpc_providers[s] =>
                 /\ unregistered[s] > 0
                 /\ RpcQueue(s) \notin consuming[s]]_vars

\* C36 witness: a request was given to a provider that had asked to be
\* unregistered, while the consumer was still registered, and its worker has
\* published the reply with the method's result
C36_Witness ==
    \E i \in 1..Len(rworkers) :
        /\ rworkers[i].asked /\ rworkers[i].message # NoMessage
        /\ rworkers[i].pc \in {"ack", "done"}
        /\ Len(replies[rworkers[i].message.correlation_id]) = 1
        /\ replies[rworkers[i].message.correlation_id][1].body.error = NoExc

\* the number of kill fan-outs the effective kill k has made: none before
\* its entrypoint step, one up to its all-dependencies step, two after it
KillFanOuts(k) ==
    IF op[k] = "kill" /\ pc[k] = "kill_entrypoints" THEN 0
    ELSE IF op[k] = "kill" /\ pc[k] \in {"kill_kill_active", "kill_dependencies"} THEN 1
    ELSE 2

\* C37: the kill that performs the shutdown invokes kill on every entrypoint
\* once in its entrypoint step and once more in its all-dependencies step,
\* and on every other dependency once, in the all-dependencies step; when it
\* has ended the counts are two and one, and no kill hook is invoked without
\* such a kill
C37_KillHookCounts ==
    /\ eff = {} => \A d \in Deps : calls[d]["kill"] = 0
    /\ \A k \in eff :
           /\ \A e \in Entrypoints : calls[e]["kill"] = KillFanOuts(k)
           /\ \A d \in Deps \ Entrypoints :
                  calls[d]["kill"] = IF KillFanOuts(k) = 2 THEN 1 ELSE 0

====
